---- MODULE Spec2Model ----
(***************************************************************************)
(* The dependency-tracking and update-scheduling core of the repository:   *)
(* Dep, Watcher, the computed getter, getData, the scheduler and nextTick. *)
(*                                                                         *)
(* JavaScript runs one handler to completion, so every action below is one *)
(* whole top-level call (a write, a read, a task run by the host ...) with *)
(* every nested call it makes.  The nested calls are operators on a record *)
(* `st` of the whole program state; an action applies them to the current  *)
(* state and commits the result.                                           *)
(***************************************************************************)
EXTENDS Integers, Sequences, FiniteSets, TLC

(***************************************************************************)
(* Bounds of the model.                                                    *)
(***************************************************************************)
\* slot values written by the application are 0..MaxVal and not-a-number
MaxVal == 1
\* length of the nextTick callback list that user code may build up
MaxCallbacks == 2
\* fuel of the scheduler's drain loop; above what the runaway guard allows
MaxFlushSteps == 12
\* length targetStack may have between two calls
MaxStack == 2

(***************************************************************************)
(* Values.  JavaScript values are coded as integers: numbers are           *)
(* themselves, NAN is not-a-number, UNDEF is undefined, OBJ is (a          *)
(* reference to) an observed object, whose one property is the slot Field, *)
(* and ARR is (a reference to) an observed array of numbers; FAULTY is (a   *)
(* reference to) an object whose one property is an accessor with a getter *)
(* that throws.                                                            *)
(***************************************************************************)
NAN == 0 - 1
UNDEF == 0 - 2
OBJ == 0 - 3
ARR == 0 - 4
FAULTY == 0 - 5
Vals == (0..MaxVal) \cup {NAN}

\* a === b of JavaScript: not-a-number is not equal to itself
StrictEq(a, b) == a = b /\ a # NAN

\* isObject(v)
isObject(v) == v \in {OBJ, ARR, FAULTY}

\* the observable slots; slot s owns the Dep with id s
Slots == {1, 2, 3}

\* the slot that is the property of the object OBJ
Field == 3

\* the id of the array's own Dep (the Dep of its observer), and all Deps
ArrDep == 4
Deps == Slots \cup {ArrDep}

\* the longest the array grows
MaxLen == 2

Range(f) == {f[i] : i \in DOMAIN f}
Front(q) == SubSeq(q, 1, Len(q) - 1)
Last(q) == q[Len(q)]

\* remove(arr, item): drops the first occurrence, if any
RECURSIVE remove(_, _)
remove(arr, item) ==
  IF arr = <<>> THEN <<>>
  ELSE IF Head(arr) = item THEN Tail(arr)
  ELSE <<Head(arr)>> \o remove(Tail(arr), item)

(***************************************************************************)
(* The application: the watchers it creates, in creation order.  A getter  *)
(* or a callback is a user function; it is given as a list of steps:       *)
(*   <<"read", s>>         read slot s                                     *)
(*   <<"readc", k>>        read the computed property of watcher k         *)
(*   <<"write", s, v>>     assign v to slot s                              *)
(*   <<"toggle", s>>       assign to slot s a value that differs from it   *)
(*   <<"teardown", k>>     call teardown() of watcher k                    *)
(*   <<"throw">>           throw an error                                  *)
(*   <<"getData", p>>      create a component whose data() is p            *)
(*   <<"when", s, v, p>>   do the steps p if slot s holds v (a plain look  *)
(*                         at the value, which is not a tracked read)      *)
(*   <<"wrapped", p>>      call a function wrapped by withMacroTask whose  *)
(*                         steps are p                                     *)
(*   <<"tick", cb>>        call nextTick with the callback cb              *)
(* A getter returns the value of its last read (undefined if it has none). *)
(***************************************************************************)
Opt(lazy, sync, user, deep) ==
  [lazy |-> lazy, sync |-> sync, user |-> user, deep |-> deep]

WDef(opt, getter, cb) == [opt |-> opt, getter |-> getter, cb |-> cb]

\* the options the repository itself passes
computedWatcherOptions == Opt(TRUE, FALSE, FALSE, FALSE)
renderOptions == Opt(FALSE, FALSE, FALSE, FALSE)
userOptions == Opt(FALSE, FALSE, TRUE, FALSE)
userSyncOptions == Opt(FALSE, TRUE, TRUE, FALSE)
\* options of watchers created with new Watcher directly: the constructor
\* takes deep, user, lazy and sync each on its own
syncOptions == Opt(FALSE, TRUE, FALSE, FALSE)
\* no options at all: $watch called with a getter and a callback only
noOptions == Opt(FALSE, FALSE, FALSE, FALSE)
deepSyncOptions == Opt(FALSE, TRUE, TRUE, TRUE)
\* $watch with the deep option
deepOptions == Opt(FALSE, FALSE, TRUE, TRUE)

\* an application: its watchers (ws), the slots (slots) and values (vals) it
\* writes, the watchers it tears down from outside (tear), the callbacks it
\* passes to nextTick (ticks) and whether it has wrapped event handlers
\* (macro); promise says whether the host has a native Promise, strict
\* whether the build is not the production build and config.async is false,
\* comps the components it creates, watch the watchers it creates with
\* vm.$watch and immediate those of them created with the immediate option,
\* handlers the event handlers it has wrapped with withMacroTask, destroy
\* whether it destroys the component that owns the watchers
App(w, slots, vals, tear, ticks, macro) ==
  [ws |-> w, slots |-> slots, vals |-> vals, tear |-> tear, ticks |-> ticks,
   macro |-> macro, promise |-> TRUE, strict |-> FALSE, comps |-> <<>>,
   watch |-> {}, immediate |-> {}, handlers |-> <<>>, destroy |-> FALSE]

\* a prop of a component: whether the parent passes a value (given), the
\* default factory and the validator of its options (user functions)
Prop(given, default, validator) ==
  [given |-> given, default |-> default, validator |-> validator]

\* a component: whether it has no parent (root), whether it has injections
\* (inject), and its props in the order of its options
Comp(root, inject, props) == [root |-> root, inject |-> inject, props |-> props]

\* three synchronous watchers of slot 1: the first subscribes to it late,
\* once slot 2 holds 1; the callback of the second tears the third down and
\* writes slot 2
OrderApp ==
  App(<< WDef(userSyncOptions,
              << <<"read", 2>>, <<"when", 2, 1, << <<"read", 1>> >> >> >>, <<>>),
         WDef(userSyncOptions, << <<"read", 1>> >>,
              << <<"teardown", 3>>, <<"write", 2, 1>> >>),
         WDef(userSyncOptions, << <<"read", 1>> >>, <<>>) >>,
      {1, 2}, 0..MaxVal, {}, {}, FALSE)

\* one watcher, user code that calls nextTick, and a wrapped handler
TickApp ==
  App(<< WDef(userOptions, << <<"read", 1>> >>, <<>>) >>,
      {1}, 0..MaxVal, {}, {"noop", "throw", "again", "toggle", "promise"}, TRUE)

Apps == <<
  \* 1: watchers of one counter, plain and synchronous, and a watcher of
  \*    another slot whose callback resets the counter
  App(<< WDef(userOptions, << <<"read", 1>> >>, <<>>),
         WDef(userSyncOptions, << <<"read", 1>> >>, <<>>),
         WDef(userOptions, << <<"read", 2>> >>, << <<"write", 1, 0>> >>) >>,
      {1, 2}, Vals, {1}, {}, FALSE),
  \* 2: a computed property and a render function that reads it
  App(<< WDef(computedWatcherOptions, << <<"read", 1>> >>, <<>>),
         WDef(renderOptions, << <<"readc", 1>>, <<"read", 2>> >>, <<>>) >>,
      {1, 2}, 0..MaxVal, {1}, {}, FALSE),
  \* 3: a synchronous watcher whose getter writes the slot it has just read,
  \*    and a synchronous watcher whose getter tears the watcher itself down
  \*    once the slot holds 1
  App(<< WDef(userSyncOptions,
              << <<"read", 1>>, <<"write", 1, 1>>, <<"read", 2>> >>, <<>>),
         WDef(userSyncOptions,
              << <<"read", 1>>,
                 <<"when", 1, 1, << <<"teardown", 2>>, <<"read", 2>> >> >> >>,
              <<>>) >>,
      {1, 2}, 0..MaxVal, {}, {}, FALSE),
  \* 4: a render function that creates a child component whose data() reads
  \*    a computed property
  App(<< WDef(computedWatcherOptions, << <<"read", 1>> >>, <<>>),
         WDef(renderOptions,
              << <<"getData", << <<"readc", 1>>, <<"read", 2>> >> >>,
                 <<"read", 3>> >>, <<>>) >>,
      {1, 2, 3}, 0..MaxVal, {}, {}, FALSE),
  \* 5: a watcher whose callback dirties the watcher again on every run, and
  \*    a bystander
  App(<< WDef(userOptions, << <<"read", 1>> >>, << <<"toggle", 1>> >>),
         WDef(userOptions, << <<"read", 2>> >>, <<>>) >>,
      {1, 2}, 0..MaxVal, {}, {}, FALSE),
  \* 6: a computed property whose getter throws on some values
  App(<< WDef(computedWatcherOptions,
              << <<"read", 1>>, <<"when", 1, 1, << <<"throw">> >> >> >>, <<>>) >>,
      {1}, 0..MaxVal, {}, {}, FALSE),
  \* 7: TickApp on a host with a native Promise
  TickApp,
  \* 8: TickApp on a host without one
  [TickApp EXCEPT !.promise = FALSE],
  \* 9: OrderApp, notify() dispatching in subscription order
  OrderApp,
  \* 10: OrderApp, notify() dispatching in id order
  [OrderApp EXCEPT !.strict = TRUE],
  \* 11: watchers whose callbacks throw: a user watcher whose getter throws
  \*     once slot 1 holds 1, a watcher that is not a user watcher whose
  \*     getter throws then too, and a user watcher that waits for the flush
  App(<< WDef(userSyncOptions,
              << <<"read", 1>>, <<"when", 1, 1, << <<"throw">> >> >> >>,
              << <<"throw">> >>),
         WDef(syncOptions,
              << <<"read", 1>>, <<"when", 1, 1, << <<"throw">> >> >>,
                 <<"read", 2>> >>,
              << <<"throw">> >>),
         WDef(userOptions, << <<"read", 1>> >>, << <<"throw">> >>) >>,
      {1, 2}, 0..MaxVal, {}, {}, FALSE),
  \* 12: watchers of values that may be not-a-number or an object, plain
  \*     and deep; each is re-run by a write of slot 3 as well
  App(<< WDef(userSyncOptions, << <<"read", 3>>, <<"read", 1>> >>, <<>>),
         WDef(deepSyncOptions, << <<"read", 2>> >>, <<>>),
         WDef(deepSyncOptions, << <<"read", 3>>, <<"read", 1>> >>, <<>>) >>,
      {1, 2, 3}, Vals \cup {OBJ}, {}, {}, FALSE),
  \* 13: one slot read by a computed property, by a synchronous watcher and
  \*     by a watcher that waits for the flush
  App(<< WDef(computedWatcherOptions, << <<"read", 1>> >>, <<>>),
         WDef(userSyncOptions, << <<"read", 1>> >>, <<>>),
         WDef(userOptions, << <<"read", 1>> >>, <<>>) >>,
      {1}, 0..MaxVal, {}, {}, FALSE),
  \* 14: components with props and injections: a root with a prop that
  \*     takes its default, a child with injections, a prop that takes its
  \*     default and a prop its parent passes, a child whose default factory
  \*     throws, and a child whose validator throws
  [App(<<>>, {}, {}, {}, {}, FALSE) EXCEPT !.comps = <<
     Comp(TRUE, FALSE, << Prop(FALSE, <<>>, <<>>) >>),
     Comp(FALSE, TRUE, << Prop(FALSE, <<>>, <<>>), Prop(TRUE, <<>>, <<>>) >>),
     Comp(FALSE, FALSE, << Prop(FALSE, << <<"throw">> >>, <<>>) >>),
     Comp(FALSE, FALSE, << Prop(TRUE, <<>>, << <<"throw">> >>) >>) >>],
  \* 15: the watchers of one component: a watcher of its watch option, its
  \*     render function, which throws once slot 2 holds 1, and a watcher
  \*     registered with $watch after the component was mounted
  App(<< WDef(userOptions, << <<"read", 1>> >>, <<>>),
         WDef(renderOptions,
              << <<"read", 1>>, <<"read", 2>>,
                 <<"when", 2, 1, << <<"throw">> >> >> >>, <<>>),
         WDef(userOptions, << <<"read", 1>> >>, <<>>) >>,
      {1, 2}, 0..MaxVal, {}, {}, FALSE),
  \* 16: a watcher whose callback dirties a watcher created after it while
  \*     a third, created last, waits in the same flush
  App(<< WDef(userOptions, << <<"read", 1>> >>, << <<"toggle", 2>> >>),
         WDef(userOptions, << <<"read", 2>> >>, <<>>),
         WDef(userOptions, << <<"read", 1>> >>, <<>>) >>,
      {1, 2}, 0..MaxVal, {}, {}, FALSE),
  \* 17: watchers created with vm.$watch: one with the immediate option,
  \*     which the application unwatches; one whose getter calls the
  \*     function $watch returned once slot 1 holds 1; one whose callback
  \*     throws
  [App(<< WDef(noOptions, << <<"read", 1>> >>, <<>>),
          WDef(noOptions,
               << <<"read", 1>>,
                  <<"when", 1, 1, << <<"teardown", 2>>, <<"read", 2>> >> >> >>,
               <<>>),
          WDef(noOptions, << <<"read", 2>> >>, << <<"throw">> >>) >>,
       {1, 2}, 0..MaxVal, {1}, {}, FALSE)
     EXCEPT !.watch = {1, 2, 3}, !.immediate = {1, 3}],
  \* 18: a slot that may hold the array, watched deep, watched plainly and
  \*     read by a render function; the application appends to the array
  App(<< WDef(deepOptions, << <<"read", 1>> >>, <<>>),
         WDef(userOptions, << <<"read", 1>> >>, <<>>),
         WDef(renderOptions, << <<"read", 1>> >>, <<>>) >>,
      {1}, {0, ARR}, {}, {}, FALSE),
  \* 19: event handlers wrapped by withMacroTask: one that writes the slot
  \*     a watcher reads, one that calls another wrapped function and then
  \*     writes, one that writes and throws; user code that calls nextTick
  [App(<< WDef(userOptions, << <<"read", 1>> >>, <<>>) >>,
       {1}, 0..MaxVal, {}, {"noop"}, FALSE)
     EXCEPT !.handlers = <<
       << <<"toggle", 1>> >>,
       << <<"wrapped", << <<"tick", "noop">> >> >>, <<"toggle", 1>> >>,
       << <<"toggle", 1>>, <<"throw">> >> >>],
  \* 20: a computed property and a synchronous watcher that reads the slot
  \*     and then the computed property, both of a component the
  \*     application destroys; the application also tears the first watcher
  \*     down itself
  [App(<< WDef(computedWatcherOptions, << <<"read", 1>> >>, <<>>),
          WDef(userSyncOptions, << <<"read", 1>>, <<"readc", 1>> >>, <<>>) >>,
       {1}, 0..MaxVal, {1}, {}, FALSE)
     EXCEPT !.destroy = TRUE],
  \* 21: a slot that may hold an object with a getter that throws, watched
  \*     deep; a second watcher reads the other slot
  App(<< WDef(deepOptions, << <<"read", 1>> >>, <<>>),
         WDef(userOptions, << <<"read", 2>> >>, <<>>) >>,
      {1, 2}, {0, FAULTY}, {}, {}, FALSE),
  \* 22: a computed property whose getter reads a slot and, if the slot
  \*     holds 0, writes 1 to it
  App(<< WDef(computedWatcherOptions,
              << <<"read", 1>>,
                 <<"when", 1, 0, << <<"write", 1, 1>> >> >> >>, <<>>) >>,
      {1}, 0..MaxVal, {}, {}, FALSE)
>>

AppIds == DOMAIN Apps

\* the fixed ceiling of the scheduler's runaway guard
MAX_UPDATE_COUNT == 2

VARIABLES
  app,          \* which application runs (fixed in a behaviour)
  val,          \* val[s]: the value of slot s
  subs,         \* subs[s]: Dep.subs of the Dep of slot s, a list of watchers;
                \* subs[ArrDep]: those of the array's own Dep
  length,       \* the length of the array
  ws,           \* the Watcher objects, in creation order
  uid,          \* the id counter of the Watcher module
  vmWatchers,   \* vm._watchers
  isBeingDestroyed, \* vm._isBeingDestroyed
  target,       \* Dep.target: a watcher, or 0 for none
  targetStack,  \* targetStack of the Dep module
  queue,        \* scheduler: the pending watchers
  has,          \* scheduler: the ids that are pending
  circular,     \* scheduler: circular[id], enqueues of id in this flush cycle
  waiting,      \* scheduler: a flush has been handed to nextTick
  flushing,     \* scheduler: a flush is draining the queue
  index,        \* scheduler: position of the entry being run
  callbacks,    \* nextTick: the callback list
  inTask,       \* observation: inTask[i] = 1 if callbacks[i] was passed to
                \* nextTick while a wrapped function was executing
  pending,      \* nextTick: the pending flag
  drains,       \* observation: the parity of the number of flushCallbacks
                \* calls so far, kept for the applications that call nextTick
  useMacroTask, \* nextTick: the force-macrotask flag
  shouldObserve, \* observer: the flag toggleObserving sets
  microQ,       \* host: flushCallbacks invocations waiting as microtasks
  macroQ,       \* host: flushCallbacks invocations waiting as (macro) tasks
  hits,         \* observation: hits[w], update() calls on w since the last flush
  evals,        \* observation: evals[w], getter calls of lazy w since its last
                \* update(), and dones[w], those of them evaluate() completed
  dones,
  trace,        \* observation: what the last action did, in order
  graph,        \* traverse: the objects of the value traversed
  throwing,     \* traverse: whether the getters that can throw do
  seenObjects,  \* traverse: the set seenObjects of the module
  last          \* observation: the last call of traverse

\* the variables of the watchers and the scheduler, and those of traverse
\* over a graph of objects
coreVars == <<app, val, subs, length, ws, uid, vmWatchers, isBeingDestroyed,
              target, targetStack,
              queue, has, circular, waiting, flushing, index, callbacks,
              inTask, pending, drains, useMacroTask, shouldObserve, microQ, macroQ, hits,
              evals, dones, trace>>
traverseVars == <<graph, throwing, seenObjects, last>>

vars == <<coreVars, traverseVars>>

\* the ids a Watcher can get
WIds == 1..3

(***************************************************************************)
(* The program state as one record, for the operators below.  exc is the   *)
(* exception in flight (JavaScript's throw), ret the value last returned,  *)
(* frames the slots read by each evaluation in progress (observation),     *)
(* wrapping the number of wrapped functions that are executing and task    *)
(* the kind of task the host is running (observation),                     *)
(* abort the runaway guard's request to end the flush.                     *)
(***************************************************************************)
St ==
  [app |-> app, val |-> val, subs |-> subs, length |-> length, ws |-> ws,
   uid |-> uid,
   vmWatchers |-> vmWatchers, isBeingDestroyed |-> isBeingDestroyed,
   target |-> target, targetStack |-> targetStack,
   queue |-> queue, has |-> has, circular |-> circular, waiting |-> waiting,
   flushing |-> flushing, index |-> index, callbacks |-> callbacks,
   inTask |-> inTask, wrapping |-> 0, task |-> "none",
   pending |-> pending, drains |-> drains, useMacroTask |-> useMacroTask,
   shouldObserve |-> shouldObserve, microQ |-> microQ,
   macroQ |-> macroQ, hits |-> hits, evals |-> evals, dones |-> dones,
   trace |-> <<>>,
   exc |-> FALSE, ret |-> UNDEF, frames |-> <<>>, abort |-> FALSE]

Commit(st) ==
  /\ app' = st.app
  /\ val' = st.val
  /\ subs' = st.subs
  /\ length' = st.length
  /\ ws' = st.ws
  /\ uid' = st.uid
  /\ vmWatchers' = st.vmWatchers
  /\ isBeingDestroyed' = st.isBeingDestroyed
  /\ target' = st.target
  /\ targetStack' = st.targetStack
  /\ queue' = st.queue
  /\ has' = st.has
  /\ circular' = st.circular
  /\ waiting' = st.waiting
  /\ flushing' = st.flushing
  /\ index' = st.index
  /\ callbacks' = st.callbacks
  /\ inTask' = st.inTask
  /\ pending' = st.pending
  /\ drains' = st.drains
  /\ useMacroTask' = st.useMacroTask
  /\ shouldObserve' = st.shouldObserve
  /\ microQ' = st.microQ
  /\ macroQ' = st.macroQ
  /\ hits' = st.hits
  /\ evals' = st.evals
  /\ dones' = st.dones
  /\ trace' = st.trace
  /\ UNCHANGED traverseVars

(***************************************************************************)
(* Observation: the events of the last action.                             *)
(*   get      w finished get(): x, y = Dep.target before and after,        *)
(*            r = slots read, d = deps, i = depIds, ok = returned normally,*)
(*            v = the value returned, k = "threw" if the getter threw,     *)
(*            "finally" if traverse threw in the finally block             *)
(*   eval     the getter of w was called; x = 1 if w was active            *)
(*   run      run() of w was called; x = 1 if w was active, y = its value  *)
(*   ran      run() of w was left; ok = it returned, y = the value of w    *)
(*   dispatch notify() number x (the position of its notify event) is      *)
(*            about to call update() of w, entry y of its copy of subs     *)
(*   enqueue  w was added to the scheduler queue: q = the queue with w in  *)
(*            it, x = index, y = 1 if a flush was draining the queue       *)
(*   cb       the callback of w was called with (x, y); ok = w was active, *)
(*            v = the value w held when it was called                      *)
(*   cbend    the callback of w was left; ok = it returned                 *)
(*   updated  update() of w was left: ok = it returned, x = 1 if w is      *)
(*            dirty, y = the value of w, i = the ids that are pending      *)
(*   update   update() of w was called; y = the value of w                 *)
(*   notify   notify() of the Dep of slot x was called; q = its copy of    *)
(*            subs, as it dispatches it                                    *)
(*   notified notify() number x was left; ok = it returned                 *)
(*   teardown teardown() of w returned; x = 1 if w was active, y = 1 if    *)
(*            the owner was being destroyed, q = vm._watchers before, 0,   *)
(*            vm._watchers after, i and r = the Deps whose subs held w     *)
(*            before and after, d = the deps of w before, ok = w is        *)
(*            active, k = same if subs, the watchers and vm._watchers are  *)
(*            as before                                                    *)
(*   push     a number was appended to the array; x = its new length       *)
(*   immediate $watch called the callback of w with x; ok = w was active,  *)
(*            v = the value w held                                         *)
(*   watched  $watch returned the function that unwatches w                *)
(*   cget     the computed getter of w was called; x = 1 if w was dirty,   *)
(*            v = the value w held, y = Dep.target                         *)
(*   evaluated evaluate() of w returned; x = 1 if w is dirty                *)
(*   cread    the computed getter of w returned v; x = Dep.target, y = the *)
(*            value the getter of w returns if called now (k = "throws" if *)
(*            it throws), d = the deps of w, i = the newDepIds of the      *)
(*            target                                                       *)
(*   flushed  a flush ended: q = the queue, i = the pending ids, x = 1 if  *)
(*            waiting, y = 1 if flushing, as it leaves them                *)
(*   flush    a flush began: q = the queue as it was, r, d = the watchers  *)
(*            update() was called on at least once, twice, since the last  *)
(*            flush                                                        *)
(*   getData  getData returned: x, y = Dep.target before and after         *)
(*   data     getData is about to call data(); x = Dep.target before       *)
(*   dep      addDep of w added the Dep of slot x to newDeps; y = 1 if it  *)
(*            added w to the subs of the Dep as well                       *)
(*   validate validateProp, props initProps, inject initInjections was     *)
(*            left: x, y = 1 if shouldObserve was true before, after;      *)
(*            ok = it returned                                             *)
(*   err      handleError was called; x = the place                        *)
(*            (of a run() in the flush: q = the entries not yet run)       *)
(*   uncaught an exception left the action                                 *)
(*   dup      addSub pushed w to the subs of slot x, which held w already  *)
(*   tick     nextTick was called with the callback k; y = 1 if it         *)
(*            returned a Promise, x = 1 if a wrapped function was          *)
(*            executing, ok = useMacroTask                                 *)
(*   drain    flushCallbacks began; x = the length of its copy of the      *)
(*            list, k = the kind of task that runs it, q = for each entry  *)
(*            of the copy 1 if it was passed to nextTick while a wrapped   *)
(*            function was executing                                       *)
(*   wrap     a function wrapped by withMacroTask was called; x = the      *)
(*            wrapped functions executing                                  *)
(*   unwrap   it was left; x = those still executing, ok = it returned     *)
(*   call     flushCallbacks called entry x of its copy, the callback k    *)
(*   resolve  entry x of the copy resolved the Promise nextTick returned   *)
(***************************************************************************)
Ev(t, w, x, y) ==
  [t |-> t, w |-> w, x |-> x, y |-> y, v |-> UNDEF,
   r |-> {}, d |-> {}, i |-> {}, q |-> <<>>, k |-> "", ok |-> TRUE]

Log(st, e) == [st EXCEPT !.trace = Append(@, e)]

\* the places handleError is called from
ErrGetter == 1
ErrCallback == 2
ErrNextTick == 3
ErrData == 4
ErrRunaway == 5
ErrFlush == 6

\* handleError(e, vm, info): the error sink; the error is reported, not rethrown
handleError(st, w, place) == [Log(st, Ev("err", w, place, 0)) EXCEPT !.exc = FALSE]

\* a slot was read by the user function on top of the evaluation stack
NoteRead(st, S) ==
  IF st.frames = <<>> THEN st
  ELSE [st EXCEPT !.frames[Len(st.frames)] = @ \cup S]

(***************************************************************************)
(* Dep                                                                     *)
(***************************************************************************)
pushTarget(st, t) ==
  [st EXCEPT !.targetStack = IF st.target # 0 THEN Append(@, st.target) ELSE @,
             !.target = t]

\* targetStack.pop() of an empty array is undefined: no target
popTarget(st) ==
  [st EXCEPT !.target = IF st.targetStack = <<>> THEN 0 ELSE Last(st.targetStack),
             !.targetStack = IF @ = <<>> THEN <<>> ELSE Front(@)]

\* addSub pushes; a push of a watcher that is in the list already is noted
Dep_addSub(st, s, w) ==
  LET s1 == [st EXCEPT !.subs[s] = Append(@, w)]
  IN IF w \in Range(st.subs[s]) THEN Log(s1, Ev("dup", w, s, 0)) ELSE s1

Dep_removeSub(st, s, w) == [st EXCEPT !.subs[s] = remove(@, w)]

(***************************************************************************)
(* Watcher: dependency collection                                          *)
(***************************************************************************)
\* addDep without the test of depIds
Watcher_addDep_noDepIds(st, w, s) ==
  IF s \notin st.ws[w].newDepIds
  THEN Dep_addSub(Log([st EXCEPT !.ws[w].newDepIds = @ \cup {s},
                                 !.ws[w].newDeps = Append(@, s)],
                      Ev("dep", w, s, 1)), s, w)
  ELSE st

Watcher_addDep(st, w, s) ==
  IF s \notin st.ws[w].newDepIds
  THEN LET s1 == Log([st EXCEPT !.ws[w].newDepIds = @ \cup {s},
                                !.ws[w].newDeps = Append(@, s)],
                     Ev("dep", w, s, IF s \notin st.ws[w].depIds THEN 1 ELSE 0))
       IN IF s \notin st.ws[w].depIds THEN Dep_addSub(s1, s, w) ELSE s1
  ELSE st

Dep_depend(st, s) ==
  IF st.target # 0 THEN Watcher_addDep(st, st.target, s) ELSE st

RECURSIVE cleanupLoop(_, _, _)
cleanupLoop(st, w, i) ==
  IF i = 0 THEN st
  ELSE LET dep == st.ws[w].deps[i]
       IN cleanupLoop(IF dep \notin st.ws[w].newDepIds
                      THEN Dep_removeSub(st, dep, w) ELSE st, w, i - 1)

Watcher_cleanupDeps(st, w) ==
  LET s1 == cleanupLoop(st, w, Len(st.ws[w].deps))
  IN [s1 EXCEPT !.ws[w] = [@ EXCEPT !.depIds = s1.ws[w].newDepIds,
                                    !.newDepIds = {},
                                    !.deps = s1.ws[w].newDeps,
                                    !.newDeps = <<>>]]

RECURSIVE dependLoop(_, _, _)
dependLoop(st, w, i) ==
  IF i = 0 THEN st ELSE dependLoop(Dep_depend(st, st.ws[w].deps[i]), w, i - 1)

Watcher_depend(st, w) == dependLoop(st, w, Len(st.ws[w].deps))

RECURSIVE teardownLoop(_, _, _)
teardownLoop(st, w, i) ==
  IF i = 0 THEN st
  ELSE teardownLoop(Dep_removeSub(st, st.ws[w].deps[i], w), w, i - 1)

\* the Deps whose subs hold watcher w
SubscribedTo(st, w) == {s \in Deps : w \in Range(st.subs[s])}

\* teardown() that removes the watcher from vm._watchers whatever the state
\* of the owner
teardown_remove_always(st, w) == [st EXCEPT !.vmWatchers = remove(@, w)]

\* remove(this.vm._watchers, this), unless the owner is being destroyed
teardown_remove(st, w) ==
  IF ~st.isBeingDestroyed THEN [st EXCEPT !.vmWatchers = remove(@, w)] ELSE st

Watcher_teardown(st, w) ==
  LET s1 == IF st.ws[w].active
            THEN LET a == teardown_remove(st, w)
                     b == teardownLoop(a, w, Len(a.ws[w].deps))
                 IN [b EXCEPT !.ws[w].active = FALSE]
            ELSE st
  IN Log(s1, [Ev("teardown", w, IF st.ws[w].active THEN 1 ELSE 0,
                 IF st.isBeingDestroyed THEN 1 ELSE 0)
                EXCEPT !.q = st.vmWatchers \o <<0>> \o s1.vmWatchers,
                       !.i = SubscribedTo(st, w), !.r = SubscribedTo(s1, w),
                       !.d = Range(st.ws[w].deps), !.ok = s1.ws[w].active,
                       !.k = IF s1.subs = st.subs /\ s1.ws = st.ws
                                /\ s1.vmWatchers = st.vmWatchers
                             THEN "same" ELSE "changed"])

\* vm.$destroy(): the owner is marked as being destroyed, then each of its
\* watchers is torn down, from the last one to the first
RECURSIVE destroyLoop(_, _)
destroyLoop(st, i) ==
  IF i = 0 THEN st
  ELSE destroyLoop(Watcher_teardown(st, st.vmWatchers[i]), i - 1)

Vue_destroy(st) ==
  destroyLoop([st EXCEPT !.isBeingDestroyed = TRUE], Len(st.vmWatchers))

(***************************************************************************)
(* nextTick.  A callback is named by what it does:                         *)
(*   "flush"    flushSchedulerQueue, registered by the scheduler           *)
(*   "noop"     a user callback that does nothing                          *)
(*   "throw"    a user callback that throws                                *)
(*   "again"    a user callback that calls nextTick with a "noop"          *)
(*   "toggle"   a user callback that assigns a new value to slot 1         *)
(*   "promise"  no callback: the Promise nextTick returned is resolved, if  *)
(*              the host has Promise                                       *)
(***************************************************************************)
\* setImmediate / MessageChannel / setTimeout: one flushCallbacks as a task
macroTimerFunc(st) == [st EXCEPT !.macroQ = @ + 1]

\* Promise.resolve().then(flushCallbacks): one flushCallbacks as a microtask;
\* without a native Promise, microTimerFunc is macroTimerFunc
microTimerFunc(st) ==
  IF Apps[st.app].promise THEN [st EXCEPT !.microQ = @ + 1]
  ELSE macroTimerFunc(st)

\* the record of a call of nextTick: a Promise is returned if there is no
\* callback and the host has Promise
tick_enter(st, cb) ==
  Log([st EXCEPT !.callbacks = Append(@, cb),
                 !.inTask = Append(@, IF st.wrapping > 0 THEN 1 ELSE 0)],
      [Ev("tick", 0, IF st.wrapping > 0 THEN 1 ELSE 0,
          IF cb = "promise" /\ Apps[st.app].promise THEN 1 ELSE 0)
         EXCEPT !.k = cb, !.ok = st.useMacroTask])

\* nextTick without the test of pending
nextTick_unguarded(st, cb) ==
  LET s1 == tick_enter(st, cb)
      s2 == [s1 EXCEPT !.pending = TRUE]
  IN IF s2.useMacroTask THEN macroTimerFunc(s2) ELSE microTimerFunc(s2)

nextTick(st, cb) ==
  LET s1 == tick_enter(st, cb)
  IN IF ~s1.pending
     THEN LET s2 == [s1 EXCEPT !.pending = TRUE]
          IN IF s2.useMacroTask THEN macroTimerFunc(s2) ELSE microTimerFunc(s2)
     ELSE s1

(***************************************************************************)
(* Scheduler: queueWatcher                                                 *)
(***************************************************************************)
\* the place of a watcher enqueued while the flush is draining: after the
\* entry being run, before the first waiting entry with a larger id
RECURSIVE insertAt(_, _, _)
insertAt(st, id, i) ==
  IF i > st.index /\ st.ws[st.queue[i]].id > id THEN insertAt(st, id, i - 1) ELSE i

\* queueWatcher without the repeat ceiling
queueWatcher_noCeiling(st, w) ==
  LET id == st.ws[w].id
  IN IF id \in st.has THEN st
     ELSE LET i == insertAt(st, id, Len(st.queue))
              s1 == [st EXCEPT
                       !.has = @ \cup {id},
                       !.circular[id] = IF @ < MAX_UPDATE_COUNT THEN @ + 1 ELSE @,
                       !.queue = IF ~st.flushing THEN Append(@, w)
                                 ELSE SubSeq(@, 1, i) \o <<w>> \o SubSeq(@, i + 1, Len(@))]
              s2 == Log(s1, [Ev("enqueue", w, s1.index, IF st.flushing THEN 1 ELSE 0)
                               EXCEPT !.q = s1.queue])
          IN IF ~s2.waiting
             THEN nextTick([s2 EXCEPT !.waiting = TRUE], "flush")
             ELSE s2

\* queueWatcher that appends to the queue also while a flush is draining it
queueWatcher_appends(st, w) ==
  LET id == st.ws[w].id
  IN IF id \in st.has THEN st
     ELSE IF st.circular[id] + 1 > MAX_UPDATE_COUNT
     THEN [Log(st, Ev("err", w, ErrRunaway, 0)) EXCEPT !.abort = TRUE]
     ELSE LET s1 == [st EXCEPT
                       !.has = @ \cup {id},
                       !.circular[id] = @ + 1,
                       !.queue = Append(@, w)]
              s2 == Log(s1, [Ev("enqueue", w, s1.index, IF st.flushing THEN 1 ELSE 0)
                               EXCEPT !.q = s1.queue])
          IN IF ~s2.waiting
             THEN nextTick([s2 EXCEPT !.waiting = TRUE], "flush")
             ELSE s2

\* queueWatcher without the test of the pending ids
queueWatcher_noHasCheck(st, w) ==
  LET id == st.ws[w].id
  IN IF st.circular[id] + 1 > MAX_UPDATE_COUNT
     THEN [Log(st, Ev("err", w, ErrRunaway, 0)) EXCEPT !.abort = TRUE]
     ELSE LET i == insertAt(st, id, Len(st.queue))
              s1 == [st EXCEPT
                       !.has = @ \cup {id},
                       !.circular[id] = @ + 1,
                       !.queue = IF ~st.flushing THEN Append(@, w)
                                 ELSE SubSeq(@, 1, i) \o <<w>> \o SubSeq(@, i + 1, Len(@))]
              s2 == Log(s1, [Ev("enqueue", w, s1.index, IF st.flushing THEN 1 ELSE 0)
                               EXCEPT !.q = s1.queue])
          IN IF ~s2.waiting
             THEN nextTick([s2 EXCEPT !.waiting = TRUE], "flush")
             ELSE s2

queueWatcher(st, w) ==
  LET id == st.ws[w].id
  IN IF id \in st.has THEN st
     ELSE IF st.circular[id] + 1 > MAX_UPDATE_COUNT
     THEN [Log(st, Ev("err", w, ErrRunaway, 0)) EXCEPT !.abort = TRUE]
     ELSE LET i == insertAt(st, id, Len(st.queue))
              s1 == [st EXCEPT
                       !.has = @ \cup {id},
                       !.circular[id] = @ + 1,
                       !.queue = IF ~st.flushing THEN Append(@, w)
                                 ELSE SubSeq(@, 1, i) \o <<w>> \o SubSeq(@, i + 1, Len(@))]
              s2 == Log(s1, [Ev("enqueue", w, s1.index, IF st.flushing THEN 1 ELSE 0)
                               EXCEPT !.q = s1.queue])
          IN IF ~s2.waiting
             THEN nextTick([s2 EXCEPT !.waiting = TRUE], "flush")
             ELSE s2

(***************************************************************************)
(* Watcher: evaluation.  The user functions are run by Exec, defined last. *)
(***************************************************************************)
RECURSIVE Exec(_, _, _)
RECURSIVE withMacroTask(_, _)

Getter(st, w) == Apps[st.app].ws[w].getter
Cb(st, w) == Apps[st.app].ws[w].cb

\* traverse(val): _traverse returns at once unless val is an object or an
\* array, reads every property of an object, and every element of an array
\* (the elements of the array are numbers, and an element has no accessor);
\* the getter of an accessor property that throws ends it with the exception
traverse(st, v) ==
  IF ~isObject(v) \/ v = ARR THEN st
  ELSE IF v = FAULTY THEN [st EXCEPT !.exc = TRUE]
  ELSE NoteRead([Dep_depend(st, Field) EXCEPT !.ret = st.ret], {Field})

\* get(), up to the call of the getter: pushTarget(this)
get_enter(st, w) ==
  Log([pushTarget(st, w) EXCEPT
         !.frames = Append(@, {}),
         !.evals[w] = IF st.ws[w].lazy /\ @ < 2 THEN @ + 1 ELSE @],
      Ev("eval", w, IF st.ws[w].active THEN 1 ELSE 0, 0))

\* get(), from the return of the getter: the catch and the finally block;
\* s3 is the state the getter left, tBefore the Dep.target get() was called with
get_exit(s3, w, tBefore) ==
  LET threw == s3.exc
      value == IF threw THEN UNDEF ELSE s3.ret
      \* catch
      rethrow == threw /\ ~s3.ws[w].user
      s4 == IF threw /\ s3.ws[w].user
            THEN handleError(s3, w, ErrGetter)
            ELSE [s3 EXCEPT !.exc = FALSE]
      \* finally: an exception of traverse leaves the block at once
      s5 == IF s4.ws[w].deep THEN traverse(s4, value) ELSE s4
      s6 == IF s5.exc THEN s5 ELSE popTarget(s5)
      s7 == IF s5.exc THEN s5 ELSE Watcher_cleanupDeps(s6, w)
      e == [Ev("get", w, tBefore, s7.target) EXCEPT
              !.r = Last(s7.frames), !.d = Range(s7.ws[w].deps),
              !.i = s7.ws[w].depIds, !.ok = ~rethrow /\ ~s5.exc, !.v = value,
              !.k = IF s5.exc THEN "finally" ELSE IF threw THEN "threw" ELSE ""]
  IN [Log(s7, e) EXCEPT !.frames = Front(@), !.ret = value,
                        !.exc = rethrow \/ s5.exc]

Watcher_get(st, w) ==
  get_exit(Exec(get_enter(st, w), Getter(st, w), UNDEF), w, st.target)

\* evaluate() that leaves dirty as it is
evaluate_exit_keepsDirty(s1, w) ==
  IF s1.exc THEN s1
  ELSE Log([s1 EXCEPT !.ws[w].value = s1.ret,
                      !.dones[w] = IF @ < 2 THEN @ + 1 ELSE @],
           Ev("evaluated", w, IF s1.ws[w].dirty THEN 1 ELSE 0, 0))

\* evaluate(), from the return of get()
evaluate_exit(s1, w) ==
  IF s1.exc THEN s1
  ELSE Log([s1 EXCEPT !.ws[w].value = s1.ret, !.ws[w].dirty = FALSE,
                      !.dones[w] = IF @ < 2 THEN @ + 1 ELSE @],
           Ev("evaluated", w, 0, 0))

Watcher_evaluate(st, w) == evaluate_exit(Watcher_get(st, w), w)

\* what the getter of watcher k does if it is called in state st
WouldReturn(st, k) == Exec(st, Getter(st, k), UNDEF)

\* the computed getter returns the value of watcher k; fresh is what a call
\* of the getter of k would leave
computed_return(s3, k, fresh) ==
  [Log(s3, [Ev("cread", k, s3.target, fresh.ret) EXCEPT
              !.v = s3.ws[k].value,
              !.k = IF fresh.exc THEN "throws" ELSE "",
              !.d = Range(s3.ws[k].deps),
              !.i = IF s3.target # 0 THEN s3.ws[s3.target].newDepIds ELSE {}])
     EXCEPT !.ret = s3.ws[k].value]

\* the computed getter, from the return of depend() (if called)
computed_depended(s2, k) ==
  computed_return(NoteRead(s2, Range(s2.ws[k].deps)), k,
                  WouldReturn(s2, k))

\* the computed getter, after the evaluation (if any)
computed_exit(s1, k) ==
  IF s1.exc THEN s1
  ELSE computed_depended(IF s1.target # 0 THEN Watcher_depend(s1, k) ELSE s1, k)

\* the computed getter, up to the evaluation (if any)
computed_enter(st, k) ==
  LET e == [Ev("cget", k, IF st.ws[k].dirty THEN 1 ELSE 0, st.target) EXCEPT
              !.v = st.ws[k].value]
  IN IF st.ws[k].dirty THEN Watcher_evaluate(Log(st, e), k) ELSE Log(st, e)

\* the getter createComputedGetter returns, for the computed property whose
\* watcher is k (no watcher yet: the property reads as undefined)
computedGetter(st, k) ==
  IF k > Len(st.ws) THEN [st EXCEPT !.ret = UNDEF]
  ELSE computed_exit(computed_enter(st, k), k)

\* the callback of w is left: ok = it returned
cb_end(s4, w) == Log(s4, [Ev("cbend", w, 0, 0) EXCEPT !.ok = ~s4.exc])

\* run() without the try/catch around the callback of a user watcher
run_exit_rethrows(s4, w) == cb_end(s4, w)

\* run(), from the return of the callback
run_exit(s4, w) ==
  IF s4.exc /\ s4.ws[w].user
  THEN handleError(cb_end(s4, w), w, ErrCallback)
  ELSE cb_end(s4, w)

\* run() that calls the callback only if the value has changed
run_cb_changedOnly(s1, w) ==
  LET value == s1.ret
      oldValue == s1.ws[w].value
  IN IF s1.exc THEN s1
     ELSE IF ~StrictEq(value, oldValue)
     THEN LET s2 == [s1 EXCEPT !.ws[w].value = value]
          IN run_exit(Exec(Log(s2, [Ev("cb", w, value, oldValue) EXCEPT
                                      !.ok = s2.ws[w].active,
                                      !.v = s2.ws[w].value]),
                           Cb(s2, w), UNDEF), w)
     ELSE s1

\* run(), from the return of get() to the call of the callback
run_cb(s1, w) ==
  LET value == s1.ret
      oldValue == s1.ws[w].value
  IN IF s1.exc THEN s1
     ELSE IF ~StrictEq(value, oldValue) \/ isObject(value) \/ s1.ws[w].deep
     THEN LET s2 == [s1 EXCEPT !.ws[w].value = value]
          IN run_exit(Exec(Log(s2, [Ev("cb", w, value, oldValue) EXCEPT
                                      !.ok = s2.ws[w].active,
                                      !.v = s2.ws[w].value]),
                           Cb(s2, w), UNDEF), w)
     ELSE s1

\* run() is left: ok = it returned, y = the value w holds
run_done(s5, w) ==
  Log(s5, [Ev("ran", w, 0, s5.ws[w].value) EXCEPT !.ok = ~s5.exc])

Watcher_run(st, w) ==
  IF ~st.ws[w].active
  THEN run_done(Log(st, Ev("run", w, 0, st.ws[w].value)), w)
  ELSE run_done(run_cb(Watcher_get(Log(st, Ev("run", w, 1, st.ws[w].value)), w), w), w)

\* update() is called: the value w holds is noted
update_enter(st, w) ==
  [Log(st, Ev("update", w, 0, st.ws[w].value)) EXCEPT
     !.hits[w] = IF @ < 2 THEN @ + 1 ELSE 2]

\* update() is left: ok = it returned; dirty, the value and the pending ids
\* are noted
update_exit(s1, w) ==
  Log(s1, [Ev("updated", w, IF s1.ws[w].dirty THEN 1 ELSE 0, s1.ws[w].value)
             EXCEPT !.ok = ~s1.exc, !.i = s1.has])

\* update() that runs every watcher that is not lazy at once
Watcher_update_neverQueues(st, w) ==
  LET s0 == update_enter(st, w)
  IN update_exit(
       IF s0.ws[w].lazy
       THEN [s0 EXCEPT !.ws[w].dirty = TRUE, !.evals[w] = 0, !.dones[w] = 0]
       ELSE Watcher_run(s0, w), w)

\* update() without the branch for lazy watchers
Watcher_update_noLazyBranch(st, w) ==
  LET s0 == update_enter(st, w)
  IN update_exit(
       IF s0.ws[w].sync THEN Watcher_run(s0, w) ELSE queueWatcher(s0, w), w)

Watcher_update(st, w) ==
  LET s0 == update_enter(st, w)
  IN update_exit(
       IF s0.ws[w].lazy
       THEN [s0 EXCEPT !.ws[w].dirty = TRUE, !.evals[w] = 0, !.dones[w] = 0]
       ELSE IF s0.ws[w].sync THEN Watcher_run(s0, w)
       ELSE queueWatcher(s0, w), w)

\* arr.sort((a, b) => a.id - b.id), as an insertion sort: the sort of the
\* copy of subs in notify(), and the sort of the queue in the flush
RECURSIVE sortById(_, _)
insertById(st, sorted, w) ==
  LET n == Cardinality({j \in DOMAIN sorted : st.ws[sorted[j]].id <= st.ws[w].id})
  IN SubSeq(sorted, 1, n) \o <<w>> \o SubSeq(sorted, n + 1, Len(sorted))
sortById(st, q) ==
  IF q = <<>> THEN <<>>
  ELSE insertById(st, sortById(st, Front(q)), Last(q))

\* the loop of notify() over the subscriber list itself, not over a copy
RECURSIVE notifyLoop_liveList(_, _, _, _)
notifyLoop_liveList(st, snap, i, n) ==
  IF i > Len(st.subs[st.trace[n].x]) \/ st.exc THEN st
  ELSE notifyLoop_liveList(
         Watcher_update(Log(st, Ev("dispatch", st.subs[st.trace[n].x][i], n, i)),
                        st.subs[st.trace[n].x][i]),
         snap, i + 1, n)

\* the loop of notify() over its copy of the subscriber list; an exception
\* thrown by an update() ends it
RECURSIVE notifyLoop(_, _, _, _)
notifyLoop(st, snap, i, n) ==
  IF i > Len(snap) \/ st.exc THEN st
  ELSE notifyLoop(Watcher_update(Log(st, Ev("dispatch", snap[i], n, i)), snap[i]),
                  snap, i + 1, n)

\* this.subs.slice(), sorted by id when the build is not the production
\* build and config.async is false
notifySubs(st, s) ==
  IF Apps[st.app].strict THEN sortById(st, st.subs[s]) ELSE st.subs[s]

\* notify() number n is left: ok = it returned
notify_exit(s2, n) == Log(s2, [Ev("notified", 0, n, 0) EXCEPT !.ok = ~s2.exc])

Dep_notify(st, s) ==
  notify_exit(
    notifyLoop(Log(st, [Ev("notify", 0, s, 0) EXCEPT !.q = notifySubs(st, s)]),
               notifySubs(st, s), 1, Len(st.trace) + 1),
    Len(st.trace) + 1)

\* the accessors defineReactive installs on a slot
\* the read of a slot that holds the array registers the active watcher
\* with the array's own Dep as well
childOb_depend(st, s) ==
  IF st.target # 0 /\ st.val[s] = ARR
  THEN NoteRead(Dep_depend(st, ArrDep), {ArrDep})
  ELSE st

reactiveGetter(st, s) ==
  [childOb_depend(Dep_depend(st, s), s) EXCEPT !.ret = st.val[s]]

\* the setter without the test for not-a-number
reactiveSetter_strictOnly(st, s, newVal) ==
  LET value == st.val[s]
  IN IF StrictEq(newVal, value) THEN st
     ELSE Dep_notify([st EXCEPT !.val[s] = newVal], s)

reactiveSetter(st, s, newVal) ==
  LET value == st.val[s]
  IN IF StrictEq(newVal, value) \/ (~StrictEq(newVal, newVal) /\ ~StrictEq(value, value))
     THEN st
     ELSE Dep_notify([st EXCEPT !.val[s] = newVal], s)

\* the intercepted push of the array: the original push, then notify() of
\* the array's own Dep (the element appended is a number: nothing to observe)
Array_push(st) ==
  Dep_notify(Log([st EXCEPT !.length = @ + 1], Ev("push", 0, st.length + 1, 0)),
             ArrDep)

\* getData, from the return of data(): the catch and the finally block
getData_exit(s2, tBefore) ==
  LET s3 == IF s2.exc THEN handleError(s2, 0, ErrData) ELSE s2
      s4 == popTarget(s3)
  IN [Log(s4, Ev("getData", 0, tBefore, s4.target)) EXCEPT !.frames = Front(@)]

getData(st, data) ==
  getData_exit(Exec(Log([pushTarget(st, 0) EXCEPT !.frames = Append(@, {})],
                        Ev("data", 0, st.target, 0)),
                    data, UNDEF),
               st.target)

\* one step of a user function
Step(st, op, acc) ==
  CASE op[1] = "read" -> NoteRead(reactiveGetter(st, op[2]), {op[2]})
    [] op[1] = "readc" -> computedGetter(st, op[2])
    [] op[1] = "write" -> reactiveSetter(st, op[2], op[3])
    [] op[1] = "toggle" -> reactiveSetter(st, op[2], IF st.val[op[2]] = 0 THEN 1 ELSE 0)
    [] op[1] = "teardown" ->
         IF op[2] <= Len(st.ws) THEN Watcher_teardown(st, op[2]) ELSE st
    [] op[1] = "throw" -> [st EXCEPT !.exc = TRUE]
    [] op[1] = "getData" -> getData(st, op[2])
    [] op[1] = "wrapped" -> withMacroTask(st, op[2])
    [] op[1] = "tick" -> nextTick(st, op[2])
    [] op[1] = "when" ->
         IF st.val[op[2]] = op[3] THEN Exec(st, op[4], acc)
         ELSE [st EXCEPT !.ret = acc]

\* a user function: its steps in order, up to the first that throws; acc is
\* the value of its last read so far
ExecRest(r, prog, acc) ==
  Exec(r, Tail(prog),
       IF Head(prog)[1] \in {"read", "readc", "when"} THEN r.ret ELSE acc)

Exec(st, prog, acc) ==
  IF st.exc THEN st
  ELSE IF prog = <<>> THEN [st EXCEPT !.ret = acc]
  ELSE ExecRest(Step(st, Head(prog), acc), prog, acc)

\* the constructor, from the return of get()
new_exit(s2, k) == IF s2.exc THEN s2 ELSE [s2 EXCEPT !.ws[k].value = s2.ret]

\* the constructor that gives every watcher the id 1
Watcher_new_sameId(st, k) ==
  LET o == Apps[st.app].ws[k].opt
      this == [id |-> 1, deep |-> o.deep, user |-> o.user,
               lazy |-> o.lazy, sync |-> o.sync, active |-> TRUE,
               dirty |-> o.lazy, deps |-> <<>>, newDeps |-> <<>>,
               depIds |-> {}, newDepIds |-> {}, value |-> UNDEF]
      s1 == [st EXCEPT !.vmWatchers = Append(@, k), !.uid = @ + 1,
                       !.ws = Append(@, this)]
  IN IF o.lazy THEN s1 ELSE new_exit(Watcher_get(s1, k), k)

\* the constructor of the k-th watcher of the application, given options o
Watcher_constructor(st, k, o) ==
  LET this == [id |-> st.uid + 1, deep |-> o.deep, user |-> o.user,
               lazy |-> o.lazy, sync |-> o.sync, active |-> TRUE,
               dirty |-> o.lazy, deps |-> <<>>, newDeps |-> <<>>,
               depIds |-> {}, newDepIds |-> {}, value |-> UNDEF]
      s1 == [st EXCEPT !.vmWatchers = Append(@, k), !.uid = @ + 1,
                       !.ws = Append(@, this)]
  IN IF o.lazy THEN s1 ELSE new_exit(Watcher_get(s1, k), k)

\* new Watcher(vm, expOrFn, cb, options), the k-th of the application
Watcher_new(st, k) == Watcher_constructor(st, k, Apps[st.app].ws[k].opt)

\* $watch, from the return of the callback it called at once to its own
\* return
watch_exit(s2, k) == IF s2.exc THEN s2 ELSE Log(s2, Ev("watched", k, 0, 0))

\* $watch, from the return of the constructor: the callback is called with
\* watcher.value if the immediate option is given
watch_immediate(s1, k) ==
  IF s1.exc THEN s1
  ELSE IF k \in Apps[s1.app].immediate
  THEN watch_exit(Exec(Log(s1, [Ev("immediate", k, s1.ws[k].value, 0) EXCEPT
                                  !.ok = s1.ws[k].active,
                                  !.v = s1.ws[k].value]),
                       Cb(s1, k), UNDEF), k)
  ELSE watch_exit(s1, k)

\* vm.$watch(expOrFn, cb, options) for the k-th watcher of the application:
\* options.user = true, then new Watcher
Vue_watch(st, k) ==
  watch_immediate(
    Watcher_constructor(st, k, [Apps[st.app].ws[k].opt EXCEPT !.user = TRUE]), k)

(***************************************************************************)
(* Scheduler: the flush                                                    *)
(***************************************************************************)
\* the reset that leaves the flush-pending flag set
resetSchedulerState_keepsWaiting(st) ==
  [st EXCEPT !.index = 0, !.queue = <<>>, !.has = {},
             !.circular = [id \in WIds |-> 0],
             !.flushing = FALSE, !.abort = FALSE]

resetSchedulerState(st) ==
  [st EXCEPT !.index = 0, !.queue = <<>>, !.has = {},
             !.circular = [id \in WIds |-> 0],
             !.waiting = FALSE, !.flushing = FALSE, !.abort = FALSE]

\* the drain that lets the error of a run() out
run_guard_rethrows(s2, w) == s2

\* a run() that throws is reported and the drain goes on
run_guard(s2, w) ==
  IF s2.exc
  THEN [Log(s2, [Ev("err", w, ErrFlush, 0) EXCEPT
                   !.q = SubSeq(s2.queue, s2.index + 1, Len(s2.queue))])
          EXCEPT !.exc = FALSE]
  ELSE s2

\* the drain loop, by index: the queue may grow while it runs; n counts the
\* entries run so far
RECURSIVE drain(_, _)
drain(st, n) ==
  IF st.index + 1 > Len(st.queue) \/ st.abort THEN st
  ELSE IF n >= MaxFlushSteps THEN Log(st, Ev("diverged", 0, 0, 0))
  ELSE LET w == st.queue[st.index + 1]
           s1 == [st EXCEPT !.index = @ + 1, !.has = @ \ {st.ws[w].id}]
       IN drain(run_guard(Watcher_run(s1, w), w), n + 1)

\* the flush, once the queue is drained
flush_done(s3) ==
  Log(s3, [Ev("flushed", 0, IF s3.waiting THEN 1 ELSE 0,
              IF s3.flushing THEN 1 ELSE 0)
             EXCEPT !.q = s3.queue, !.i = s3.has])

flush_exit(s2) ==
  [flush_done(resetSchedulerState(s2)) EXCEPT !.hits = [w \in WIds |-> 0]]

\* the flush without the sort of the queue
flushSchedulerQueue_unsorted(st) ==
  LET s1 == [st EXCEPT !.flushing = TRUE]
      e == [Ev("flush", 0, 0, 0) EXCEPT
              !.r = {w \in WIds : st.hits[w] >= 1},
              !.d = {w \in WIds : st.hits[w] >= 2},
              !.i = Range(st.queue), !.q = st.queue]
  IN flush_exit(drain(Log(s1, e), 0))

flushSchedulerQueue(st) ==
  LET s1 == [st EXCEPT !.flushing = TRUE, !.queue = sortById(st, @)]
      e == [Ev("flush", 0, 0, 0) EXCEPT
              !.r = {w \in WIds : st.hits[w] >= 1},
              !.d = {w \in WIds : st.hits[w] >= 2},
              !.i = Range(st.queue), !.q = st.queue]
  IN flush_exit(drain(Log(s1, e), 0))

(***************************************************************************)
(* nextTick: flushCallbacks                                                *)
(***************************************************************************)
\* the try/catch around cb.call(ctx)
\* the wrapper without its try/catch
callback_catch_rethrows(r) == r

callback_catch(r) == IF r.exc THEN handleError(r, 0, ErrNextTick) ELSE r

\* one entry of the callback list: the wrapper nextTick pushed
\* the wrapper that forgets _resolve
callCallback_neverResolves(st, cb, i) ==
  LET s0 == Log(st, [Ev("call", 0, i, 0) EXCEPT !.k = cb])
  IN CASE cb = "flush" -> callback_catch(flushSchedulerQueue(s0))
       [] cb = "toggle" ->
            callback_catch(reactiveSetter(s0, 1, IF s0.val[1] = 0 THEN 1 ELSE 0))
       [] cb = "throw" -> callback_catch([s0 EXCEPT !.exc = TRUE])
       [] cb = "again" -> callback_catch(nextTick(s0, "noop"))
       [] OTHER -> s0

callCallback(st, cb, i) ==
  LET s0 == Log(st, [Ev("call", 0, i, 0) EXCEPT !.k = cb])
  IN CASE cb = "flush" -> callback_catch(flushSchedulerQueue(s0))
       [] cb = "noop" -> callback_catch(s0)
       [] cb = "throw" -> callback_catch([s0 EXCEPT !.exc = TRUE])
       [] cb = "again" -> callback_catch(nextTick(s0, "noop"))
       [] cb = "toggle" ->
            callback_catch(reactiveSetter(s0, 1, IF s0.val[1] = 0 THEN 1 ELSE 0))
       [] cb = "promise" ->
            IF Apps[st.app].promise THEN Log(s0, Ev("resolve", 0, i, 0)) ELSE s0

\* the loop of flushCallbacks over its copy; an exception that leaves an
\* entry ends it
RECURSIVE callLoop(_, _, _)
callLoop(st, copies, i) ==
  IF i > Len(copies) \/ st.exc THEN st
  ELSE callLoop(callCallback(st, copies[i], i), copies, i + 1)

\* the parity of the flushCallbacks calls, this one included
Drained(st) == IF Apps[st.app].ticks # {} THEN 1 - st.drains ELSE st.drains

\* flushCallbacks without callbacks.length = 0
flushCallbacks_keepsList(st) ==
  LET copies == st.callbacks
      s1 == [st EXCEPT !.pending = FALSE, !.drains = Drained(st)]
  IN callLoop(Log(s1, [Ev("drain", 0, Len(copies), 0) EXCEPT
                         !.k = st.task, !.q = st.inTask]), copies, 1)

\* flushCallbacks without pending = false
flushCallbacks_keepsPending(st) ==
  LET copies == st.callbacks
      s1 == [st EXCEPT !.callbacks = <<>>, !.inTask = <<>>,
                       !.drains = Drained(st)]
  IN callLoop(Log(s1, [Ev("drain", 0, Len(copies), 0) EXCEPT
                         !.k = st.task, !.q = st.inTask]), copies, 1)

flushCallbacks(st) ==
  LET copies == st.callbacks
      s1 == [st EXCEPT !.pending = FALSE, !.callbacks = <<>>, !.inTask = <<>>,
                       !.drains = Drained(st)]
  IN callLoop(Log(s1, [Ev("drain", 0, Len(copies), 0) EXCEPT
                         !.k = st.task, !.q = st.inTask]), copies, 1)

\* the function withMacroTask(fn) returns, applied
macro_exit(s2) ==
  LET s3 == Log([s2 EXCEPT !.wrapping = @ - 1],
                [Ev("unwrap", 0, s2.wrapping - 1, 0) EXCEPT !.ok = ~s2.exc])
  IN IF s2.exc THEN s3 ELSE [s3 EXCEPT !.useMacroTask = FALSE]

withMacroTask(st, fn) ==
  macro_exit(Exec(Log([st EXCEPT !.useMacroTask = TRUE, !.wrapping = @ + 1],
                      Ev("wrap", 0, st.wrapping + 1, 0)),
                  fn, UNDEF))

(***************************************************************************)
(* Component initialisation: props and injections                          *)
(***************************************************************************)
toggleObserving(st, value) == [st EXCEPT !.shouldObserve = value]

\* the record of a call that is left: the flag before and after
FlagEv(s2, t, before) ==
  Log(s2, [Ev(t, 0, IF before THEN 1 ELSE 0, IF s2.shouldObserve THEN 1 ELSE 0)
             EXCEPT !.ok = ~s2.exc])

\* getPropDefaultValue: the default factory, def.call(vm)
getPropDefaultValue(st, prop) == Exec(st, prop.default, UNDEF)

\* validateProp, after getPropDefaultValue: the default value is observed
\* with the flag on
observeDefault(s1) ==
  IF s1.exc THEN s1
  ELSE toggleObserving(toggleObserving(s1, TRUE), s1.shouldObserve)

\* assertProp: the validator of the prop, if it has come this far
assertProp(s2, prop) == IF s2.exc THEN s2 ELSE Exec(s2, prop.validator, UNDEF)

validateProp(st, prop) ==
  FlagEv(assertProp(IF prop.given THEN st
                    ELSE observeDefault(getPropDefaultValue(st, prop)), prop),
         "validate", st.shouldObserve)

\* the loop of initProps over the props; an exception ends it
RECURSIVE propsLoop(_, _, _)
propsLoop(st, props, i) ==
  IF i > Len(props) \/ st.exc THEN st
  ELSE propsLoop(validateProp(st, props[i]), props, i + 1)

\* initProps, after the loop
props_exit(s2) == IF s2.exc THEN s2 ELSE toggleObserving(s2, TRUE)

initProps(st, comp) ==
  FlagEv(props_exit(propsLoop(IF ~comp.root THEN toggleObserving(st, FALSE) ELSE st,
                              comp.props, 1)),
         "props", st.shouldObserve)

initInjections(st, comp) ==
  FlagEv(IF comp.inject
         THEN toggleObserving(toggleObserving(st, FALSE), TRUE)
         ELSE st,
         "inject", st.shouldObserve)

\* initState: the props, if the first steps of the initialisation returned
initState(s1, comp) ==
  IF s1.exc \/ comp.props = <<>> THEN s1 ELSE initProps(s1, comp)

(***************************************************************************)
(* The state after the modules are loaded: no watcher, nothing scheduled.  *)
(***************************************************************************)
InitCore ==
  /\ val = [s \in Slots |-> 0]
  /\ subs = [s \in Deps |-> <<>>]
  /\ length = 0
  /\ ws = <<>>
  /\ uid = 0
  /\ vmWatchers = <<>>
  /\ isBeingDestroyed = FALSE
  /\ target = 0
  /\ targetStack = <<>>
  /\ queue = <<>>
  /\ has = {}
  /\ circular = [id \in WIds |-> 0]
  /\ waiting = FALSE
  /\ flushing = FALSE
  /\ index = 0
  /\ callbacks = <<>>
  /\ inTask = <<>>
  /\ pending = FALSE
  /\ drains = 0
  /\ useMacroTask = FALSE
  /\ shouldObserve = TRUE
  /\ microQ = 0
  /\ macroQ = 0
  /\ hits = [w \in WIds |-> 0]
  /\ evals = [w \in WIds |-> 0]
  /\ dones = [w \in WIds |-> 0]
  /\ trace = <<>>

\* no object to traverse
NoGraph ==
  /\ graph = <<>>
  /\ throwing = FALSE
  /\ seenObjects = {}
  /\ last = <<>>

Init ==
  /\ app \in AppIds
  /\ InitCore
  /\ NoGraph

(***************************************************************************)
(* Actions: one per top-level call made by the application or the host.    *)
(* An exception that no handler catches ends the call and is noted.        *)
(***************************************************************************)
Finish(st) ==
  /\ Len(st.targetStack) <= MaxStack
  /\ Commit(IF st.exc THEN [Log(st, Ev("uncaught", 0, 0, 0)) EXCEPT !.exc = FALSE]
         ELSE st)

\* the application creates its next watcher
NewWatcher ==
  /\ Len(ws) < Len(Apps[app].ws)
  /\ Len(ws) + 1 \notin Apps[app].watch
  /\ Finish(Watcher_new(St, Len(ws) + 1))

\* the application calls vm.$watch for its next watcher
Watch ==
  /\ Len(ws) < Len(Apps[app].ws)
  /\ Len(ws) + 1 \in Apps[app].watch
  /\ Finish(Vue_watch(St, Len(ws) + 1))

\* the application assigns v to slot s; the mark says whether v is the value
\* the slot already holds
SetSlot(s, v) ==
  Finish(reactiveSetter(Log(St, Ev("set", 0, s, IF v = val[s] THEN 1 ELSE 0)), s, v))

\* the application reads a computed property outside any evaluation
ReadComputed(k) ==
  /\ k \in DOMAIN ws
  /\ ws[k].lazy
  /\ Finish(computedGetter(St, k))

\* the application calls teardown() of a watcher (the function $watch returns)
Teardown(k) ==
  /\ k \in DOMAIN ws
  /\ Finish(Watcher_teardown(St, k))

\* the application destroys the component that owns the watchers
Destroy ==
  /\ Apps[app].destroy
  /\ ~isBeingDestroyed
  /\ Finish(Vue_destroy(St))

\* the application appends a number to the array
Push ==
  /\ ARR \in Apps[app].vals
  /\ length < MaxLen
  /\ Finish(Array_push(St))

\* the application calls nextTick
CallNextTick(cb) ==
  /\ Len(callbacks) < MaxCallbacks
  /\ Finish(nextTick(St, cb))

\* an event handler wrapped by withMacroTask assigns v to slot s
MacroHandler(s, v) ==
  /\ Apps[app].macro
  /\ Finish(withMacroTask(St, << <<"write", s, v>> >>))

\* the host calls an event handler the application wrapped by withMacroTask
WrappedHandler(h) ==
  /\ Len(callbacks) < MaxCallbacks
  /\ Finish(withMacroTask(St, Apps[app].handlers[h]))

\* the application creates a component: its injections, then its state
InitComponent(c) ==
  Finish(initState(initInjections(St, Apps[app].comps[c]), Apps[app].comps[c]))

\* the host runs the next microtask
RunMicrotask ==
  /\ microQ > 0
  /\ Finish(flushCallbacks([St EXCEPT !.microQ = @ - 1, !.task = "micro"]))

\* the host runs the next (macro) task, once no microtask is left
RunMacrotask ==
  /\ macroQ > 0
  /\ microQ = 0
  /\ Finish(flushCallbacks([St EXCEPT !.macroQ = @ - 1, !.task = "macro"]))

Next ==
  \/ NewWatcher
  \/ Watch
  \/ \E s \in Apps[app].slots, v \in Apps[app].vals : SetSlot(s, v)
  \/ \E k \in WIds : ReadComputed(k)
  \/ \E k \in Apps[app].tear : Teardown(k)
  \/ Destroy
  \/ Push
  \/ \E cb \in Apps[app].ticks : CallNextTick(cb)
  \/ \E s \in Apps[app].slots, v \in Apps[app].vals : MacroHandler(s, v)
  \/ \E h \in DOMAIN Apps[app].handlers : WrappedHandler(h)
  \/ \E c \in DOMAIN Apps[app].comps : InitComponent(c)
  \/ RunMicrotask
  \/ RunMacrotask

Spec == Init /\ [][Next]_vars

(***************************************************************************)
(* traverse over a graph of objects.  The value is a graph of at most      *)
(* MaxNodes objects.  An object has or has not been observed (__ob__), and *)
(* has one or two properties, in the order of Object.keys: a property      *)
(* holds a number (0) or a reference to an object; one of two properties   *)
(* may be an accessor whose getter throws while `throwing` is true and     *)
(* returns a number otherwise (Thrower).                                   *)
(***************************************************************************)
MaxNodes == 2
Nodes == 1..MaxNodes

\* the depth of recursion the JavaScript stack allows, in calls of _traverse
MaxDepth == 6

Thrower == 0 - 1

\* the lists of properties an object may have
KeyLists ==
  {<<x>> : x \in Nodes \cup {0}}
    \cup {<<x, Thrower>> : x \in Nodes \cup {0}}
    \cup {<<Thrower, x>> : x \in Nodes \cup {0}}

Objects == [ob : BOOLEAN, keys : KeyLists]

\* the state of a call of traverse: seen is the set passed to _traverse,
\* reads the properties read so far (object, position of the key), depth
\* the calls of _traverse on the stack, exc an exception in flight and
\* over whether it is the stack overflow
Call(seen) ==
  [seen |-> seen, reads |-> {}, depth |-> 0, exc |-> FALSE, over |-> FALSE]

RECURSIVE _traverse(_, _)
RECURSIVE keysLoop(_, _, _)

\* while (i--) _traverse(val[keys[i]], seen): the read of the property,
\* which throws if its getter does, then the call
keysLoop(t, v, i) ==
  IF i = 0 \/ t.exc THEN t
  ELSE LET k == graph[v].keys[i]
           t1 == [t EXCEPT !.reads = @ \cup {<<v, i>>}]
       IN IF k = Thrower
          THEN IF throwing THEN [t1 EXCEPT !.exc = TRUE]
               ELSE keysLoop(_traverse(t1, 0), v, i - 1)
          ELSE keysLoop(_traverse(t1, k), v, i - 1)

\* the body of _traverse for an object, once the call is on the stack
traverse_body(t, v) ==
  IF graph[v].ob /\ v \in t.seen THEN t
  ELSE keysLoop([t EXCEPT !.seen = IF graph[v].ob THEN @ \cup {v} ELSE @],
                v, Len(graph[v].keys))

\* the return of a call of _traverse
traverse_return(t) == [t EXCEPT !.depth = @ - 1]

\* _traverse(val, seen); a call the stack has no room for throws
_traverse(t, v) ==
  IF t.depth >= MaxDepth THEN [t EXCEPT !.exc = TRUE, !.over = TRUE]
  ELSE IF v \notin Nodes THEN t
  ELSE traverse_return(traverse_body([t EXCEPT !.depth = @ + 1], v))

\* what a call of traverse left: how it ended, what it read, and
\* seenObjects as it found and left it
Outcome(t, root, before) ==
  [root |-> root,
   out |-> IF t.over THEN "overflow" ELSE IF t.exc THEN "threw" ELSE "returned",
   reads |-> t.reads,
   before |-> before,
   after |-> IF t.exc THEN t.seen ELSE {}]

\* traverse(val): seenObjects.clear() is reached only if _traverse returns
traverse_val(root) == Outcome(_traverse(Call(seenObjects), root), root, seenObjects)

\* the values: every graph, with getters that throw or do not
TraverseInit ==
  /\ app = 1
  /\ InitCore
  /\ graph \in [Nodes -> Objects]
  /\ throwing \in BOOLEAN
  /\ seenObjects = {}
  /\ last = <<>>

\* a deep watcher is evaluated: get() calls traverse(value), the value
\* being the object root
Traverse(root) ==
  /\ last' = traverse_val(root)
  /\ seenObjects' = traverse_val(root).after
  /\ UNCHANGED <<graph, throwing, coreVars>>

\* the application changes the state the throwing getters depend on
SetThrowing ==
  /\ throwing' = ~throwing
  /\ last' = <<>>
  /\ UNCHANGED <<graph, seenObjects, coreVars>>

TraverseNext ==
  \/ \E root \in Nodes : Traverse(root)
  \/ SetThrowing

TraverseSpec == TraverseInit /\ [][TraverseNext]_vars

(***************************************************************************)
(* Properties.  They read the state and the events of the last action.     *)
(***************************************************************************)
\* the positions of the events of kind t about watcher w
At(t, w) == {j \in DOMAIN trace : trace[j].t = t /\ trace[j].w = w}

\* the positions of the events of kind t
AtAny(t) == {j \in DOMAIN trace : trace[j].t = t}

\* the watchers that are subscribed to some Dep
Subscribed == UNION {Range(subs[s]) : s \in Deps}

\* C2: after every get(), deps and depIds of the watcher are exactly the
\* slots its getter read during that evaluation, for nested and re-entered
\* evaluations too.
C2_DepsAreTheSlotsRead ==
  \A j \in AtAny("get") : trace[j].d = trace[j].r /\ trace[j].i = trace[j].r

\* C3: run() never calls the callback of a watcher that has been torn down,
\* and never calls its getter.
C3_NoReactionAfterTeardown ==
  /\ \A j \in AtAny("cb") : trace[j].ok
  /\ \A j \in AtAny("eval") :
        (j > 1 /\ trace[j - 1].t = "run" /\ trace[j - 1].w = trace[j].w)
          => trace[j].x = 1

\* C4: a watcher whose teardown() has returned is in the subs of no Dep, in
\* every later state.
C4_TornDownIsUnsubscribed ==
  \A w \in DOMAIN ws : ~ws[w].active => w \notin Subscribed

\* C9: when get() or getData returns or throws, Dep.target is the watcher (or
\* none) it was when the call began.
C9_TargetRestored ==
  \A j \in AtAny("get") \cup AtAny("getData") : trace[j].y = trace[j].x

\* the state of the program, without the record of the last action
program == <<app, val, subs, ws, uid, vmWatchers, target, targetStack, queue,
             has, circular, waiting, flushing, index, callbacks, pending,
             useMacroTask, shouldObserve, microQ, macroQ, hits, evals, dones>>

\* C7: a write of the value the slot already holds (not-a-number over
\* not-a-number included) calls no notify(): it marks, enqueues and runs no
\* watcher and schedules nothing, so no later flush has a callback to fire.
C7_EqualWriteIsSilent ==
  [][(trace' # <<>> /\ trace'[1].t = "set" /\ trace'[1].y = 1)
       => (Len(trace') = 1 /\ UNCHANGED program)]_vars

\* C7 happens: not-a-number was written over not-a-number to a slot that has
\* a subscriber.
C7_Witness ==
  /\ Len(trace) = 1
  /\ trace[1].t = "set"
  /\ trace[1].y = 1
  /\ val[trace[1].x] = NAN
  /\ subs[trace[1].x] # <<>>

\* C10: at most one flushCallbacks is scheduled and not yet started, and
\* pending is true exactly when one is.
C10_OneFlushPerBatch ==
  /\ microQ + macroQ <= 1
  /\ pending <=> (microQ + macroQ = 1)

\* C10 happens: nextTick was called again while pending was true.
C10_Witness ==
  /\ pending
  /\ Len(callbacks) >= 2
  /\ microQ + macroQ = 1

\* the events of S after position f
After(f, S) == {j \in S : j > f}

\* the first and the last position of a non-empty set of positions
First(S) == CHOOSE j \in S : \A k \in S : j <= k
Latest(S) == CHOOSE j \in S : \A k \in S : k <= j

\* the runaway guard reported watcher w
Runaway(w) == {j \in At("err", w) : trace[j].x = ErrRunaway}
RunawayAny == {j \in AtAny("err") : trace[j].x = ErrRunaway}

\* C6: the watchers that are in the queue when a flush starts are run in
\* ascending order of id, whatever the order they were enqueued in; ids are
\* unique and grow in creation order.
C6_FlushInIdOrder ==
  /\ \A j, k \in DOMAIN ws : j < k => ws[j].id < ws[k].id
  /\ \A f \in AtAny("flush") : \A a, b \in trace[f].i :
        (ws[a].id < ws[b].id /\ After(f, At("run", b)) # {})
          => /\ After(f, At("run", a)) # {}
             /\ First(After(f, At("run", a))) < First(After(f, At("run", b)))

\* C6 happens: a flush found a watcher with a larger id ahead of one with a
\* smaller id in the queue, and ran both.
C6_Witness ==
  \E f \in AtAny("flush") :
    /\ Len(trace[f].q) >= 2
    /\ ws[trace[f].q[1]].id > ws[trace[f].q[2]].id
    /\ After(f, At("run", trace[f].q[1])) # {}
    /\ After(f, At("run", trace[f].q[2])) # {}

\* C8: a flush ends.  Within one flush cycle a watcher is enqueued at most
\* MAX_UPDATE_COUNT times and so run at most that often; the enqueue after
\* that is refused with an error that names the watcher, no further watcher
\* is run, and the scheduler is back at rest.
C8_FlushTerminates ==
  /\ AtAny("diverged") = {}
  /\ \A id \in WIds : circular[id] <= MAX_UPDATE_COUNT
  /\ \A f \in AtAny("flush") :
        /\ After(f, AtAny("flushed")) # {}
        /\ ~flushing
        /\ \A w \in DOMAIN ws :
              ~ws[w].sync => Cardinality(After(f, At("run", w))) <= MAX_UPDATE_COUNT
        /\ \A w \in DOMAIN ws : \A j \in Runaway(w) :
              /\ Cardinality({k \in At("run", w) : f < k /\ k < j}) = MAX_UPDATE_COUNT
              /\ \A k \in AtAny("run") : ws[trace[k].w].sync \/ k < j

\* C8 happens: a watcher whose callback makes it dirty again tripped the
\* guard, and the flush ended.
C8_Witness ==
  /\ RunawayAny # {}
  /\ AtAny("flushed") # {}
  /\ queue = <<>>

\* the lazy watchers
Lazy == {w \in DOMAIN ws : ws[w].lazy}

\* the getter of a lazy watcher is called only by its computed getter, when
\* the watcher is dirty: never by the constructor
LazyEvaluatesOnlyWhenRead ==
  \A j \in AtAny("eval") :
    trace[j].w \in Lazy
      => /\ j > 1
         /\ trace[j - 1].t = "cget"
         /\ trace[j - 1].w = trace[j].w
         /\ trace[j - 1].x = 1

\* a read of a clean lazy watcher calls no getter and returns the value the
\* watcher held; a read of a dirty one returns the value just computed
ReadsReturnTheCachedValue ==
  \A j \in AtAny("cread") :
    LET w == trace[j].w
        c == Latest({k \in At("cget", w) : k < j})
        between == {k \in DOMAIN trace : c < k /\ k < j}
    IN /\ trace[c].x = 0
            => trace[j].v = trace[c].v /\ between \cap At("eval", w) = {}
       /\ trace[c].x = 1
            => \E g \in between \cap At("get", w) : trace[j].v = trace[g].v

\* C5 as stated: a lazy watcher calls its getter only when read, at most
\* once between two update() calls however often it is read, and each read
\* returns the cached value.
C5_AtMostOneEvaluation ==
  /\ LazyEvaluatesOnlyWhenRead
  /\ ReadsReturnTheCachedValue
  /\ \A w \in Lazy : evals[w] <= 1

\* C5, amended: a lazy watcher calls its getter only when read; between two
\* update() calls at most one evaluate() completes, and once one has, reads
\* return the cached value without calling the getter.  A getter that throws
\* leaves the watcher dirty, and the next read calls it again.
C5_AtMostOneCompletedEvaluation ==
  /\ LazyEvaluatesOnlyWhenRead
  /\ ReadsReturnTheCachedValue
  /\ \A w \in Lazy : dones[w] <= 1
  /\ \A w \in Lazy : (evals[w] > dones[w]) => ws[w].dirty

\* C5 happens: a lazy watcher that has been evaluated was read again and
\* returned its cached value.
C5_Witness ==
  \E w \in Lazy :
    /\ dones[w] = 1
    /\ ~ws[w].dirty
    /\ \E c \in At("cget", w) : trace[c].x = 0
    /\ At("cread", w) # {}

\* the watchers update() hands to the scheduler
Queued == {w \in DOMAIN ws : ~ws[w].lazy /\ ~ws[w].sync}

\* C1 as stated, for the watchers the scheduler batches: a flush calls
\* exactly once the callback of every active watcher that update() was
\* called on since the last flush (and not again by the flush itself).
C1_ExactlyOneCallbackPerBurst ==
  \A f \in AtAny("flush") : \A w \in trace[f].r \cap Queued :
    (RunawayAny = {} /\ After(f, At("update", w)) = {} /\ ws[w].active)
      => Cardinality(After(f, At("cb", w))) = 1

\* C1, amended: a watcher that is neither lazy nor sync is run by a flush
\* only, and a flush the runaway guard does not end runs a watcher that
\* update() was called on before the flush, and not during it, exactly once,
\* however many writes there were.  That run calls the callback at most once:
\* exactly when the watcher is active, its getter returns, and the value
\* differs from the value the watcher held (or is an object or an array, or
\* the watcher is deep); the callback gets the value computed by that run.
C1_OneRunPerBurst ==
  /\ \A j \in AtAny("run") :
        trace[j].w \in Queued => \E f \in AtAny("flush") : f < j
  /\ \A f \in AtAny("flush") : \A w \in trace[f].r \cap Queued :
        (RunawayAny = {} /\ After(f, At("update", w)) = {})
          => LET runs == After(f, At("run", w))
                 cbs == After(f, At("cb", w))
             IN /\ Cardinality(runs) = 1
                /\ Cardinality(cbs) <= 1
                /\ LET rj == First(runs)
                       gets == After(rj, At("get", w))
                       fires == /\ trace[rj].x = 1
                                /\ gets # {}
                                /\ trace[First(gets)].ok
                                /\ \/ ~StrictEq(trace[First(gets)].v, trace[rj].y)
                                   \/ isObject(trace[First(gets)].v)
                                   \/ ws[w].deep
                   IN /\ (cbs # {}) <=> fires
                      /\ \A c \in cbs : /\ trace[c].x = trace[First(gets)].v
                                        /\ trace[c].y = trace[rj].y

\* C1 happens: update() was called at least twice on a watcher before the
\* flush, and the flush ran it once and called its callback once.
C1_Witness ==
  \E f \in AtAny("flush") : \E w \in trace[f].d \cap Queued :
    /\ RunawayAny = {}
    /\ After(f, At("update", w)) = {}
    /\ Cardinality(After(f, At("run", w))) = 1
    /\ Cardinality(After(f, At("cb", w))) = 1

\* the positions of the events of kind t in a record tr of an action
In(tr, t) == {j \in DOMAIN tr : tr[j].t = t}

\* the callbacks named by the events of tr at the positions S, in order
KindsAt(tr, S) ==
  [n \in 1..Cardinality(S) |->
     tr[CHOOSE j \in S : Cardinality({m \in S : m <= j}) = n].k]

\* C11: flushCallbacks calls the callbacks that were in the list when it
\* began, in order, and no other; a callback registered while it drains is
\* left in the list, with one flush scheduled for it.
C11_FreshBatch ==
  [][\A d \in In(trace', "drain") :
       LET during == {j \in In(trace', "tick") : j > d}
       IN /\ KindsAt(trace', In(trace', "call")) = callbacks
          /\ callbacks' = KindsAt(trace', during)
          /\ during # {} => pending' /\ microQ' + macroQ' = 1
          /\ during = {} => ~pending' /\ microQ' + macroQ' = 0]_vars

\* C11 happens: a callback called nextTick during the drain, and its
\* callback waits for the next flush.
C11_Witness ==
  \E d \in AtAny("drain") : \E c \in After(d, AtAny("call")) :
    /\ trace[c].k = "again"
    /\ callbacks = <<"noop">>
    /\ pending

\* C12: a callback that throws is reported by handleError, the callbacks
\* after it in the batch are called, and no exception leaves flushCallbacks.
C12_ThrowingCallbackIsReported ==
  \A d \in AtAny("drain") :
    /\ AtAny("uncaught") = {}
    /\ Cardinality(AtAny("call")) = trace[d].x
    /\ \A c \in AtAny("call") :
          trace[c].k = "throw"
            => /\ c < Len(trace)
               /\ trace[c + 1].t = "err"
               /\ trace[c + 1].x = ErrNextTick

\* C12 happens: a callback threw and a later callback of the batch was
\* called.
C12_Witness ==
  \E c, e \in AtAny("call") :
    /\ c < e
    /\ trace[c].k = "throw"
    /\ trace[e].k # "throw"

\* the host has a native Promise
HasPromise == Apps[app].promise

\* a Promise is resolved only by flushCallbacks, by the entry of its call
\* of nextTick, after the entries before it were called
ResolvedInItsBatch ==
  \A r \in AtAny("resolve") :
    /\ AtAny("drain") # {}
    /\ r > 1
    /\ trace[r - 1].t = "call"
    /\ trace[r - 1].k = "promise"
    /\ trace[r - 1].x = trace[r].x
    /\ {trace[c].x : c \in {j \in AtAny("call") : j < r}} = 1..trace[r].x

\* C13 as stated: nextTick without a callback returns a Promise, which is
\* resolved in the flush of its batch, after the callbacks before it.
C13_HandleResolvedByItsBatch ==
  /\ \A t \in AtAny("tick") : trace[t].k = "promise" => trace[t].y = 1
  /\ \A c \in AtAny("call") :
        trace[c].k = "promise" => c < Len(trace) /\ trace[c + 1].t = "resolve"
  /\ ResolvedInItsBatch

\* C13, amended: on a host with Promise, nextTick without a callback returns
\* a Promise, which is resolved in the flush of its batch, after the
\* callbacks before it; on a host without Promise it returns nothing and
\* its entry does nothing.
C13_HandleOnlyWithPromise ==
  /\ \A t \in AtAny("tick") :
        (trace[t].y = 1) <=> (trace[t].k = "promise" /\ HasPromise)
  /\ \A c \in AtAny("call") :
        trace[c].k = "promise"
          => IF HasPromise
             THEN c < Len(trace) /\ trace[c + 1].t = "resolve"
             ELSE c = Len(trace) \/ trace[c + 1].t = "call"
  /\ ResolvedInItsBatch

\* C13 happens: a Promise was resolved after an earlier callback of its
\* batch was called.
C13_Witness ==
  \E r \in AtAny("resolve") : trace[r].x >= 2

\* a list without a repeated entry
NoRepeat(q) == \A a, b \in DOMAIN q : q[a] = q[b] => a = b

\* C14: the subs of a Dep never hold the same watcher twice: addDep calls
\* addSub only for a watcher that is not subscribed.
C14_NoDuplicateSubscriber ==
  /\ \A s \in Slots : NoRepeat(subs[s])
  /\ AtAny("dup") = {}

\* C14 happens: a watcher that was subscribed to a slot was evaluated again,
\* read the slot again, and is in the subs of the slot.
C14_Witness ==
  \E j \in AtAny("run") : \E g \in After(j, At("get", trace[j].w)) :
    \E s \in trace[g].r : trace[j].w \in Range(subs[s])

\* the dispatches of notify() number p in the events tr, and what it means
\* that they follow its copy of subs: entry by entry, from the first on
Dispatches(tr, p) == {j \in DOMAIN tr : tr[j].t = "dispatch" /\ tr[j].x = p}

InSnapshotOrder(tr, p) ==
  /\ {tr[j].y : j \in Dispatches(tr, p)} = 1..Cardinality(Dispatches(tr, p))
  /\ \A j \in Dispatches(tr, p) :
        tr[j].y <= Len(tr[p].q) /\ tr[j].w = tr[p].q[tr[j].y]
  /\ \A j, k \in Dispatches(tr, p) : j < k => tr[j].y < tr[k].y

ReachesAll(tr, p) == Cardinality(Dispatches(tr, p)) = Len(tr[p].q)

Returned(tr, p) ==
  \E j \in DOMAIN tr : tr[j].t = "notified" /\ tr[j].x = p /\ tr[j].ok

\* the run() of the watcher notify() number p dispatched last threw
CutShort(tr, p) ==
  \E j \in Dispatches(tr, p) : \E u \in DOMAIN tr :
    /\ tr[j].y = Cardinality(Dispatches(tr, p))
    /\ u > j
    /\ tr[u].t = "ran"
    /\ tr[u].w = tr[j].w
    /\ ~tr[u].ok

\* the copy of subs the notify() of a write takes is subs as the write found
\* it: as it is, or sorted by id under the strict ordering
CopyOfSubs(q, before) ==
  IF Apps[app].strict
  THEN /\ Range(q) = Range(before)
       /\ Len(q) = Len(before)
       /\ \A a, b \in DOMAIN q : a < b => ws[q[a]].id < ws[q[b]].id
  ELSE q = before

WriteTakesCopy(tr) ==
  (Len(tr) >= 2 /\ tr[1].t = "set" /\ tr[2].t = "notify")
    => CopyOfSubs(tr[2].q, subs[tr[1].x])

\* C15 as stated: notify() calls update() of exactly the watchers that were
\* subscribed when it began, each once, in subscription order (in id order
\* under the strict ordering), whatever the reactions subscribe or
\* unsubscribe meanwhile.
C15_NotifyReachesSnapshot ==
  [][/\ WriteTakesCopy(trace')
     /\ \A p \in DOMAIN trace' :
          trace'[p].t = "notify"
            => InSnapshotOrder(trace', p) /\ ReachesAll(trace', p)]_vars

\* C15, amended: notify() calls update() of the watchers that were
\* subscribed when it began, in subscription order (in id order under the
\* strict ordering), each at most once, whatever the reactions subscribe or
\* unsubscribe meanwhile; a notify() that returns has called every one of
\* them, and an update() that throws ends the dispatch.
C15_NotifyReachesSnapshotUntilThrow ==
  [][/\ WriteTakesCopy(trace')
     /\ \A p \in DOMAIN trace' :
          trace'[p].t = "notify"
            => /\ InSnapshotOrder(trace', p)
               /\ Returned(trace', p) => ReachesAll(trace', p)
               /\ ~ReachesAll(trace', p) => CutShort(trace', p)]_vars

\* C15 happens: under the strict ordering, a notify() whose copy held three
\* watchers called update() of all three, although one of them had been
\* unsubscribed by the callback of another by the time it was reached.
C15_Witness ==
  /\ Apps[app].strict
  /\ \E p \in AtAny("notify") :
        /\ Len(trace[p].q) = 3
        /\ ReachesAll(trace, p)
        /\ Returned(trace, p)
        /\ Range(subs[trace[p].x]) # Range(trace[p].q)

\* the callback of a watcher threw at position j, run() reported it to
\* handleError and returned
ReportedAndReturned(j) ==
  /\ j + 2 <= Len(trace)
  /\ trace[j + 1].t = "err"
  /\ trace[j + 1].x = ErrCallback
  /\ trace[j + 1].w = trace[j].w
  /\ trace[j + 2].t = "ran"
  /\ trace[j + 2].w = trace[j].w
  /\ trace[j + 2].ok

\* the callback of a watcher threw at position j and run() let the error out
LeftRun(j) ==
  /\ j + 1 <= Len(trace)
  /\ trace[j + 1].t = "ran"
  /\ trace[j + 1].w = trace[j].w
  /\ ~trace[j + 1].ok

\* C16 as stated: an error thrown by the callback of a watcher during run()
\* is reported to handleError and does not leave run(), for every watcher,
\* user watcher or not.
C16_CallbackErrorNeverLeavesRun ==
  \A j \in AtAny("cbend") : ~trace[j].ok => ReportedAndReturned(j)

\* C16, amended: an error thrown by the callback of a user watcher during
\* run() is reported to handleError and does not leave run(); an error
\* thrown by the callback of any other watcher leaves run() unreported.
C16_UserCallbackErrorNeverLeavesRun ==
  \A j \in AtAny("cbend") :
    ~trace[j].ok
      => IF ws[trace[j].w].user THEN ReportedAndReturned(j) ELSE LeftRun(j)

\* C16 happens: a write ran a synchronous user watcher, whose callback
\* threw.
C16_Witness ==
  /\ trace # <<>>
  /\ trace[1].t = "set"
  /\ \E j \in AtAny("cbend") :
        ~trace[j].ok /\ ws[trace[j].w].user /\ ws[trace[j].w].sync

\* the get() events of evaluations whose getter threw
Threw == {g \in AtAny("get") : trace[g].k = "threw"}

\* the get() at position g was called by a run() of its watcher
CalledByRun(g) == {j \in At("run", trace[g].w) : j < g} # {}

\* the run() that called the get() at position g returned right after it,
\* with the value the watcher held when the run() began
RunLeftValueAlone(g) ==
  /\ g < Len(trace)
  /\ trace[g + 1].t = "ran"
  /\ trace[g + 1].w = trace[g].w
  /\ trace[g + 1].ok
  /\ trace[g + 1].y = trace[Latest({j \in At("run", trace[g].w) : j < g})].y

\* C17: when the getter throws during get(), get() of a watcher that is not
\* a user watcher throws the error on; get() of a user watcher reports it to
\* handleError, and the run() that called it leaves the value of the watcher
\* as it was and calls no callback.
C17_EvaluatorErrorYieldsNoUpdate ==
  \A g \in Threw :
    IF ~ws[trace[g].w].user
    THEN ~trace[g].ok
    ELSE /\ trace[g].ok
         /\ g > 1
         /\ trace[g - 1].t = "err"
         /\ trace[g - 1].x = ErrGetter
         /\ trace[g - 1].w = trace[g].w
         /\ CalledByRun(g) => RunLeftValueAlone(g)

\* the get() events of evaluations that run() made and that returned: the
\* next event is the callback or the return of that run()
RunGets ==
  {g \in AtAny("get") :
     /\ trace[g].ok
     /\ g < Len(trace)
     /\ trace[g + 1].t \in {"cb", "ran"}
     /\ trace[g + 1].w = trace[g].w
     /\ CalledByRun(g)}

\* the value the watcher of the get() at position g held when get()
\* returned: the one its last run(), callback or return of run() noted
StoredAt(g) ==
  LET j == Latest({e \in DOMAIN trace :
                     /\ e < g
                     /\ trace[e].w = trace[g].w
                     /\ trace[e].t \in {"run", "cb", "ran"}})
  IN IF trace[j].t = "cb" THEN trace[j].v ELSE trace[j].y

\* run() called the callback after the get() at position g: the watcher
\* holds the new value and the callback got the new and the previous one
Fired(g) ==
  /\ trace[g + 1].t = "cb"
  /\ trace[g + 1].v = trace[g].v
  /\ trace[g + 1].x = trace[g].v
  /\ trace[g + 1].y = StoredAt(g)

\* run() returned after the get() at position g without a call of the
\* callback: the watcher holds what it held
NotFired(g) ==
  /\ trace[g + 1].t = "ran"
  /\ trace[g + 1].y = StoredAt(g)

\* C18: run() of an active watcher calls the callback if and only if the
\* new value is not the value the watcher holds, or the watcher is deep, or
\* the new value is an object; if it does, the watcher then holds the new
\* value and the callback gets (new value, previous value); if it does not,
\* the watcher holds what it held.
C18_CallbackIffChanged ==
  \A g \in RunGets :
    IF trace[g].v # StoredAt(g) \/ ws[trace[g].w].deep \/ isObject(trace[g].v)
    THEN Fired(g)
    ELSE NotFired(g)

\* the position at which the update() called at position u was left, for an
\* update() that calls no update() of the same watcher
UpdateEnd(u) == First({j \in At("updated", trace[u].w) : j > u})

\* update() of a lazy watcher: it is left at once, the watcher is dirty and
\* holds what it held
OnlyMarkedDirty(u) ==
  /\ trace[u + 1].t = "updated"
  /\ trace[u + 1].w = trace[u].w
  /\ trace[u + 1].ok
  /\ trace[u + 1].x = 1
  /\ trace[u + 1].y = trace[u].y

\* update() of a synchronous watcher: run() is called at once, and update()
\* is left when run() is
RanAtOnce(u) ==
  /\ trace[u + 1].t = "run"
  /\ trace[u + 1].w = trace[u].w
  /\ \E e \in At("updated", trace[u].w) :
        /\ e > u + 2
        /\ trace[e - 1].t = "ran"
        /\ trace[e - 1].w = trace[u].w
        /\ trace[e].ok = trace[e - 1].ok

\* update() of any other watcher: until it is left the scheduler enqueues
\* the watcher, calls nextTick or reports a runaway watcher, and nothing
\* else happens; then the watcher is pending (or was reported) and holds
\* what it held
OnlyQueued(u) ==
  LET e == UpdateEnd(u)
      between == (u + 1)..(e - 1)
      reported == {j \in between : trace[j].t = "err"}
  IN /\ trace[e].ok
     /\ trace[e].y = trace[u].y
     /\ \A j \in between : trace[j].t \in {"enqueue", "tick", "err"}
     /\ \A j \in reported : trace[j].x = ErrRunaway /\ trace[j].w = trace[u].w
     /\ ws[trace[u].w].id \in trace[e].i \/ reported # {}

Toggling == AtAny("validate") \cup AtAny("props") \cup AtAny("inject")

\* C20: validateProp, initProps and initInjections leave shouldObserve as
\* they found it, whether they return or throw, and shouldObserve is never
\* left false.
C20_ObservingFlagRestored ==
  /\ shouldObserve
  /\ \A j \in Toggling : trace[j].y = trace[j].x

\* the flush ended after position j and left the scheduler idle
EndedIdle(j) ==
  \E e \in After(j, AtAny("flushed")) :
    /\ trace[e].q = <<>>
    /\ trace[e].i = {}
    /\ trace[e].x = 0
    /\ trace[e].y = 0

\* the run() of a queued watcher that the drain called threw at position r:
\* the drain reported it
ReportedByDrain(r) ==
  /\ r < Len(trace)
  /\ trace[r + 1].t = "err"
  /\ trace[r + 1].x = ErrFlush
  /\ trace[r + 1].w = trace[r].w

\* C22: when the run() of a queued watcher throws in a flush, the error is
\* reported, every watcher still in the queue is run in that flush, and the
\* flush ends with the scheduler idle.
C22_FlushSurvivesThrowingRun ==
  \A r \in AtAny("ran") :
    (~trace[r].ok /\ ~ws[trace[r].w].sync)
      => /\ ReportedByDrain(r)
         /\ \A i \in DOMAIN trace[r + 1].q :
               After(r, At("run", trace[r + 1].q[i])) # {}
         /\ EndedIdle(r)

\* C22 happens: the run() of a queued watcher threw while another watcher
\* was behind it in the queue.
C22_Witness ==
  \E r \in AtAny("ran") :
    /\ ~trace[r].ok
    /\ ~ws[trace[r].w].sync
    /\ ReportedByDrain(r)
    /\ trace[r + 1].q # <<>>

\* the entries of the queue q that were not yet run when index was x
NotYetRun(q, x) == SubSeq(q, x + 1, Len(q))

\* C23: the queue never holds a watcher twice: queueWatcher adds a watcher
\* only if its id is not pending, so however often update() of a watcher is
\* called before the watcher is run, it is run once.
C23_OneEntryPerId ==
  /\ NoRepeat(queue)
  /\ has = {ws[w].id : w \in Range(queue)}
  /\ \A e \in AtAny("enqueue") : NoRepeat(NotYetRun(trace[e].q, trace[e].x))
  /\ \A f \in AtAny("flush") :
        /\ NoRepeat(trace[f].q)
        /\ \A w \in Range(trace[f].q) :
              Cardinality(After(f, At("run", w)))
                <= 1 + Cardinality(After(f, At("enqueue", w)))

\* C23 happens: update() of a watcher was called twice before the flush,
\* which ran the watcher once.
C23_Witness ==
  \E f \in AtAny("flush") : \E w \in trace[f].d :
    /\ w \in Range(trace[f].q)
    /\ Cardinality(After(f, At("run", w))) = 1

\* the user watchers and the render watchers (neither user, lazy nor sync)
\* among the watchers S
UserIn(S) == {w \in S : ws[w].user}
RenderIn(S) == {w \in S : ~ws[w].user /\ ~ws[w].lazy /\ ~ws[w].sync}

\* in the flush that began at position f, u was run and was run before r
RunsFirst(f, u, r) ==
  /\ After(f, At("run", u)) # {}
  /\ \A j \in After(f, At("run", r)) : First(After(f, At("run", u))) < j

\* C25 as stated: a flush runs every user watcher of a component before the
\* render watcher of the component, whether the user watcher comes from the
\* watch option or from a call of $watch.
C25_UserWatchersBeforeRender ==
  \A f \in AtAny("flush") :
    \A u \in UserIn(trace[f].i) : \A r \in RenderIn(trace[f].i) :
      RunawayAny = {} => RunsFirst(f, u, r)

\* C25, amended: a flush runs a user watcher before the render watcher of
\* the component if the user watcher was created before the render watcher
\* (the watch option, a $watch call before the mount); a user watcher
\* created after it ($watch after the mount) is run after it.
C25_EarlierUserWatchersBeforeRender ==
  \A f \in AtAny("flush") :
    \A u \in UserIn(trace[f].i) : \A r \in RenderIn(trace[f].i) :
      RunawayAny = {}
        => IF ws[u].id < ws[r].id THEN RunsFirst(f, u, r) ELSE RunsFirst(f, r, u)

\* C25 happens: a flush found the render watcher ahead of a user watcher
\* created before it in the queue, and ran the user watcher first.
C25_Witness ==
  \E f \in AtAny("flush") : \E a, b \in DOMAIN trace[f].q :
    /\ a < b
    /\ trace[f].q[a] \in RenderIn(trace[f].i)
    /\ trace[f].q[b] \in UserIn(trace[f].i)
    /\ ws[trace[f].q[b]].id < ws[trace[f].q[a]].id
    /\ RunsFirst(f, trace[f].q[b], trace[f].q[a])

\* the flush ran to its end: neither the runaway guard nor the bound on the
\* steps of a flush cut it
FlushWhole == RunawayAny = {} /\ AtAny("diverged") = {}

\* the watchers of q are in ascending order of id
AscendingIds(q) == \A a, b \in DOMAIN q : a < b => ws[q[a]].id < ws[q[b]].id

FlushScheduled ==
  /\ \E i \in DOMAIN callbacks : callbacks[i] = "flush"
  /\ pending
  /\ microQ + macroQ >= 1

\* the call of nextTick that schedules the flush follows the event at e
SchedulesFlush(e) ==
  /\ e < Len(trace)
  /\ trace[e + 1].t = "tick"
  /\ trace[e + 1].k = "flush"

\* C27: a flush ends with the queue and the set of pending ids empty and
\* the flush-pending flag cleared, the first enqueue after it schedules a
\* new flush with nextTick, and between the steps of the program no watcher
\* is in the queue without a flush scheduled.
C27_NoMissedUpdate ==
  /\ ~flushing /\ index = 0
  /\ has = {ws[w].id : w \in Range(queue)}
  /\ waiting <=> queue # <<>>
  /\ waiting => FlushScheduled
  /\ \A f \in AtAny("flushed") :
       /\ trace[f].q = <<>> /\ trace[f].i = {}
       /\ trace[f].x = 0 /\ trace[f].y = 0
       /\ After(f, AtAny("enqueue")) # {}
            => SchedulesFlush(First(After(f, AtAny("enqueue"))))
  /\ \A e \in AtAny("enqueue") :
       (trace[e].y = 0 /\ Len(trace[e].q) = 1) => SchedulesFlush(e)

\* C27 happens: a callback of nextTick that ran after the flush, in the same
\* task, dirtied a watcher, and the enqueue scheduled a new flush.
C27_Witness ==
  \E f \in AtAny("flushed") :
    /\ After(f, AtAny("enqueue")) # {}
    /\ SchedulesFlush(First(After(f, AtAny("enqueue"))))
    /\ queue # <<>>
    /\ FlushScheduled

\* the watchers created with vm.$watch so far
Watched == DOMAIN ws \cap Apps[app].watch

\* a $watch that returned created a user watcher, and, with the immediate
\* option and only with it, called the callback once before it returned,
\* with the value the first evaluation gave the watcher
ImmediateOnce ==
  \A j \in AtAny("watched") :
    LET w == trace[j].w
        calls == {i \in At("immediate", w) : i < j}
    IN /\ ws[w].user
       /\ At("cb", w) = {}
       /\ Cardinality(calls) = (IF w \in Apps[app].immediate THEN 1 ELSE 0)
       /\ \A i \in calls :
            /\ trace[i].x = trace[i].v
            /\ \E g \in At("get", w) : g < i /\ trace[g].v = trace[i].x

\* the callback of a watcher created with $watch is not called once the
\* function $watch returned has been called
SilentAfterUnwatch ==
  \A w \in Watched :
    \A j \in At("cb", w) \cup At("immediate", w) : trace[j].ok

\* C24: vm.$watch creates a user watcher, with the immediate option calls
\* the callback exactly once with the watcher's value before it returns,
\* and the callback is never called after the function it returned has
\* been called.
C24_WatchImmediateAndUnwatch == ImmediateOnce /\ SilentAfterUnwatch

\* the dependencies collected while getData ran the data() whose return is
\* at position g
DepsInData(g) ==
  {j \in AtAny("dep") : j < g /\ Latest({d \in AtAny("data") : d < g}) < j}

\* C30: while getData runs data(), no read adds a dependency to a watcher
\* or a subscriber to a Dep, also when getData is called during the
\* evaluation of a watcher and data() reads a computed property.
C30_NoCollectionInData == \A g \in AtAny("getData") : DepsInData(g) = {}

\* the same for the watcher that was being evaluated when getData was called
C30_NoCollectionByCaller ==
  \A g \in AtAny("getData") : \A j \in DepsInData(g) : trace[j].w # trace[g].x

\* the deep watchers that are active and hold the array as their value
DeepOnArray ==
  {w \in DOMAIN ws : ws[w].deep /\ ws[w].active /\ ws[w].value = ARR}

\* run() of w at position r evaluated the array again and called the
\* callback with the array as the new and as the old value
FiredOnSameArray(r, w) ==
  \E g \in After(r, At("get", w)) : \E c \in After(g, At("cb", w)) :
    /\ trace[g].ok /\ trace[g].v = ARR
    /\ trace[c].x = ARR /\ trace[c].y = ARR
    /\ \A j \in After(r, At("ran", w)) : c < j

\* C21: an append to the array through the intercepted push reaches every
\* deep watcher whose value is the array: the watcher is a subscriber of
\* the array's own Dep, the push calls its update(), which leaves it in the
\* queue, and its run() calls the callback although the value it evaluates
\* is the array it held.
C21_DeepWatcherFiresOnPush ==
  /\ \A w \in DeepOnArray : w \in Range(subs[ArrDep])
  /\ \A p \in AtAny("push") : \A w \in DeepOnArray :
       /\ After(p, At("update", w)) # {}
       /\ (~ws[w].sync /\ ~ws[w].lazy) => w \in Range(queue)
  /\ \A r \in AtAny("run") :
       LET w == trace[r].w
       IN (trace[r].x = 1 /\ trace[r].y = ARR /\ ws[w].deep
           /\ \E g \in After(r, At("get", w)) : trace[g].ok /\ trace[g].v = ARR)
            => FiredOnSameArray(r, w)

\* C21 happens: the flush that follows a push ran a deep watcher, which
\* evaluated the array it held and called its callback.
C21_Witness ==
  /\ length >= 1
  /\ \E r \in AtAny("run") :
       /\ ws[trace[r].w].deep
       /\ trace[r].y = ARR
       /\ FiredOnSameArray(r, trace[r].w)
       /\ \E f \in AtAny("flush") : f < r /\ trace[r].w \in trace[f].r

\* the objects reachable from the objects S through their properties
RECURSIVE ReachableFrom(_, _)
ReachableFrom(S, n) ==
  IF n = 0 THEN S
  ELSE ReachableFrom(S \cup {k \in Nodes : \E v \in S :
                                 k \in Range(graph[v].keys)}, n - 1)

\* the properties of the objects reachable from root
NestedFields(root) ==
  {<<v, i>> \in Nodes \X (1..2) :
     v \in ReachableFrom({root}, MaxNodes) /\ i \in DOMAIN graph[v].keys}

\* C28: traverse(val) terminates for every finite graph of objects, cyclic
\* or not, with or without __ob__ on the objects of a cycle: no call
\* recurses until the stack is exhausted.
C28_TraverseTerminates == last # <<>> => last.out # "overflow"

\* C29: seenObjects is empty whenever no traverse() is running, and a call
\* of traverse that returns has read every property of every object
\* reachable from its value, whatever the calls before it did.
C29_SeenObjectsPerCall ==
  /\ seenObjects = {}
  /\ (last # <<>> /\ last.out = "returned") => last.reads = NestedFields(last.root)

\* C31: a callback passed to nextTick while a function wrapped by
\* withMacroTask is executing is flushed by the (macro) task, never by the
\* microtask, whatever flush was pending when the wrapped function began
\* and however wrapped functions are nested.
C31_WrappedCallbacksUseMacroTask ==
  \A d \in AtAny("drain") :
    trace[d].k = "micro" => \A i \in DOMAIN trace[d].q : trace[d].q[i] = 0

\* the same for the callbacks passed while no flush was pending, by a
\* wrapped function that had called no other wrapped function: the
\* microtask is not scheduled for them
C31_FirstCallbackUsesMacroTask ==
  \A j \in AtAny("tick") :
    (trace[j].x = 1 /\ trace[j].ok /\ trace[1].t = "wrap"
     /\ callbacks = <<trace[j].k>>)
      => microQ = 0 /\ macroQ >= 1

\* C39: between the calls of the application and the host no wrapped
\* function is executing, and useMacroTask is false; while a wrapped
\* function is executing it is true.
C39_MacroTaskFlagScoped ==
  /\ ~useMacroTask
  /\ \A j \in AtAny("tick") : trace[j].x = 1 => trace[j].ok

\* the call of the computed getter that returned at position c
CallOf(c) == Latest({g \in At("cget", trace[c].w) : g < c})

\* the dependencies added between positions g and c to watchers that were
\* not evaluated in between
AddedToOutsiders(g, c) ==
  {j \in AtAny("dep") :
     /\ g < j /\ j < c
     /\ ~\E e \in At("eval", trace[j].w) : g < e /\ e < j}

\* a read of a computed property made while a watcher is the target leaves
\* every dep of the computed watcher in the newDepIds of that watcher
ConsumerGetsDeps ==
  \A c \in AtAny("cread") :
    trace[CallOf(c)].y # 0
      => /\ trace[c].x = trace[CallOf(c)].y
         /\ trace[c].d \subseteq trace[c].i

\* a read of a computed property made while no watcher is the target adds
\* no dependency to a watcher other than those it evaluates
NoTargetNoSubscription ==
  \A c \in AtAny("cread") :
    trace[CallOf(c)].y = 0 => AddedToOutsiders(CallOf(c), c) = {}

\* C32: when a computed property is read while a watcher T is active, the
\* newDepIds of T afterwards contain every dep of the computed watcher;
\* when no watcher is active the read changes no subscription.
C32_ReaderDependsOnComputedDeps == ConsumerGetsDeps /\ NoTargetNoSubscription

\* the two lists of watchers that q holds, one before and one after its 0
ListBefore(q) == SubSeq(q, 1, (CHOOSE p \in DOMAIN q : q[p] = 0) - 1)
ListAfter(q) == SubSeq(q, (CHOOSE p \in DOMAIN q : q[p] = 0) + 1, Len(q))

C34_TornDownIsTerminal ==
  [][\A w \in DOMAIN ws :
       ~ws[w].active =>
         /\ ws'[w] = ws[w]
         /\ \A j \in DOMAIN trace' :
              trace'[j].t = "eval" => trace'[j].w # w]_vars

\* C35: between the calls of the application and the host, when no get() is
\* in progress, every active watcher is in the subs of exactly the Deps of
\* its deps, its depIds are the ids of its deps, and its newDeps and
\* newDepIds are empty.
C35_SubscriptionsMatchDeps ==
  \A w \in DOMAIN ws :
    ws[w].active =>
      /\ \A s \in Deps : w \in Range(subs[s]) <=> s \in Range(ws[w].deps)
      /\ ws[w].depIds = Range(ws[w].deps)
      /\ ws[w].newDeps = <<>>
      /\ ws[w].newDepIds = {}

\* C40: between the calls of the application and the host, when no get()
\* and no getData is in progress, Dep.target is none and targetStack is
\* empty, whether the evaluations returned or threw.
C40_TargetNoneAtRest == target = 0 /\ targetStack = <<>>

\* C36: every read of a computed property returns the value its getter
\* returns on the state of the read, also a read made by a watcher that a
\* notify() re-runs, whatever the order of the subscribers.
C36_ComputedReadIsFresh ==
  \A c \in AtAny("cread") : trace[c].k # "throws" => trace[c].v = trace[c].y

\* the getter call that an evaluate() of watcher w, left at position e, made
EvalOf(e) == Latest({j \in At("eval", trace[e].w) : j < e})

\* C37: if update() of a lazy watcher is called while its evaluate() is in
\* progress, between the call of its getter and the return of evaluate(),
\* the watcher is dirty when evaluate() returns.
C37_InvalidationNotLost ==
  \A e \in AtAny("evaluated") :
    (\E u \in At("update", trace[e].w) : EvalOf(e) < u /\ u < e)
      => trace[e].x = 1

(***************************************************************************)
(* The applications that call nextTick, on a host that runs the tasks it   *)
(* was handed: a microtask runs once it is scheduled, a (macro) task once  *)
(* it is scheduled and no microtask is left.                               *)
(***************************************************************************)
TickApps == {a \in AppIds : Apps[a].ticks # {}}

TickInit == app \in TickApps /\ InitCore /\ NoGraph

TickNext ==
  \/ NewWatcher
  \/ \E s \in Apps[app].slots, v \in Apps[app].vals : SetSlot(s, v)
  \/ \E cb \in Apps[app].ticks : CallNextTick(cb)
  \/ \E s \in Apps[app].slots, v \in Apps[app].vals : MacroHandler(s, v)
  \/ \E h \in DOMAIN Apps[app].handlers : WrappedHandler(h)
  \/ RunMicrotask
  \/ RunMacrotask

\* the steps of TickNext that change drains are those of RunMicrotask,
\* which is enabled when a microtask waits, and those of RunMacrotask, which
\* is enabled when a task waits and no microtask does
MicrotaskRuns == microQ > 0 /\ drains' = 1 - drains
MacrotaskRuns == microQ = 0 /\ macroQ > 0 /\ drains' = 1 - drains

TickSpec ==
  /\ TickInit
  /\ [][TickNext]_vars
  /\ WF_drains(MicrotaskRuns)
  /\ WF_drains(MacrotaskRuns)

\* a step in which flushCallbacks runs
Drains == drains' # drains

\* C38: every callback passed to nextTick is called, once, if the host runs
\* the tasks it was handed: callbacks that wait are drained by a later
\* flushCallbacks; a step that is not a flushCallbacks keeps the list and
\* appends the callbacks registered in it, in order; flushCallbacks calls the
\* callbacks that waited, each once, in the order of the list, and leaves in
\* the list the callbacks registered while it ran, in order.
C38_EveryCallbackCalledOnceInOrder ==
  /\ \A n \in {0, 1} : (callbacks # <<>> /\ drains = n) ~> (drains # n)
  /\ [][IF Drains
        THEN /\ KindsAt(trace', In(trace', "call")) = callbacks
             /\ callbacks' = KindsAt(trace', In(trace', "tick"))
        ELSE /\ In(trace', "call") = {}
             /\ callbacks' = callbacks \o KindsAt(trace', In(trace', "tick"))]_vars

\* C38 happens: flushCallbacks called two callbacks that waited, in the
\* order they were registered; one of them registered a callback, which
\* waits for a flush that is scheduled.
C38_Witness ==
  \E d \in AtAny("drain") :
    /\ trace[d].x = 2
    /\ Cardinality(AtAny("call")) = 2
    /\ \E c \in AtAny("call") : trace[c].k = "again"
    /\ Cardinality(After(d, AtAny("tick"))) = 1
    /\ callbacks = <<"noop">>
    /\ microQ + macroQ = 1

====
